---- MODULE Spec2Model ----
(***************************************************************************)
(* Model of the data-pool service of backend-fake (DataPoolService,        *)
(* src/unnamed/part_000): the pool-ensuring orchestrator, its singleton    *)
(* admin pools, the special-status order policy and the aggregate cache.   *)
(*                                                                         *)
(* The service is single-threaded async code.  A run of it is modelled as  *)
(* a call stack of frames; every action is one awaited step of the frame   *)
(* on top of the stack (a backend read, one generation cycle, a cache      *)
(* call) together with the synchronous code around it.  The remote backend *)
(* and the cache store are the environment: the backend keeps one list of  *)
(* records per entity and answers every call with one of a small set of    *)
(* outcomes.  The handlers of DataPoolController (src/unnamed/part_001)    *)
(* and the growth loop of AutoGeneratorService are the callers of the      *)
(* service.                                                                *)
(***************************************************************************)
EXTENDS Integers, Sequences, FiniteSets, TLC

(***************************************************************************)
(* Program constants                                                       *)
(***************************************************************************)
minPoolSize == 10

SpecialDelivered == 5

SpecialCancelled == 2

(***************************************************************************)
(* Bounds of the model                                                     *)
(***************************************************************************)
\* top-level calls of the service in one behaviour
MaxCalls == 2
\* records that other clients add to the backend between two calls
MaxDrift == 1
\* seeds of the pseudo-random generator
MaxSeed == 1
\* period of the pseudo-random generator
RngMod == 7
\* records the backend holds beyond minPoolSize in the populated scenario
Surplus == 2
\* calls that fail within one ensure call studied alone
MaxFailures == 1
\* the largest count generateAdditionalEntity is called with
MaxCount == 3
\* tick callbacks of the growth loop in one behaviour
MaxTicks == 1

Null == 0

(***************************************************************************)
(* Entities, in the names ensureEntityPool is called with                  *)
(***************************************************************************)
AdminRoles == {"SuperAdmins", "FinanceAdmins", "CompanionAdmins"}

BulkEntities ==
  {"AddressBooks", "FoodCategories", "FinanceRules", "Restaurants", "MenuItems",
   "MenuItemVariants", "Promotions", "Drivers", "Customers", "CustomerCares",
   "Orders", "CustomerCareInquiries", "RatingReviews"}

Entities == BulkEntities \cup AdminRoles

\* a swapped order, as a slip in the object literal would give
PoolOrderSwapped ==
  <<"AddressBooks", "FoodCategories", "SuperAdmins", "FinanceAdmins",
    "CompanionAdmins", "FinanceRules", "Restaurants", "MenuItems",
    "MenuItemVariants", "Promotions", "Customers", "Drivers", "CustomerCares",
    "Orders", "CustomerCareInquiries", "RatingReviews">>

\* the order in which ensureDataPools awaits the ensure methods
PoolOrder ==
  <<"AddressBooks", "FoodCategories", "SuperAdmins", "FinanceAdmins",
    "CompanionAdmins", "FinanceRules", "Restaurants", "MenuItems",
    "MenuItemVariants", "Promotions", "Drivers", "Customers", "CustomerCares",
    "Orders", "CustomerCareInquiries", "RatingReviews">>

\* ensureRestaurants without its two leading awaits
UpstreamCallsNoAwait(e) ==
  CASE e = "FinanceRules" -> <<"SuperAdmins">>
    [] e = "Restaurants" -> <<>>
    [] e = "MenuItems" -> <<"Restaurants", "FoodCategories">>
    [] e = "MenuItemVariants" -> <<"MenuItems">>
    [] e = "Promotions" -> <<"FoodCategories">>
    [] e = "Drivers" -> <<"AddressBooks">>
    [] e = "Orders" -> <<"Customers", "Restaurants", "Drivers", "AddressBooks",
                         "MenuItems", "MenuItemVariants">>
    [] e = "CustomerCareInquiries" -> <<"Customers", "Drivers", "Restaurants">>
    [] e = "RatingReviews" -> <<"Customers", "Drivers", "Restaurants", "Orders">>
    [] OTHER -> <<>>

\* the ensure methods an ensure method awaits before its own pool, in order
UpstreamCalls(e) ==
  CASE e = "FinanceRules" -> <<"SuperAdmins">>
    [] e = "Restaurants" -> <<"AddressBooks", "FoodCategories">>
    [] e = "MenuItems" -> <<"Restaurants", "FoodCategories">>
    [] e = "MenuItemVariants" -> <<"MenuItems">>
    [] e = "Promotions" -> <<"FoodCategories">>
    [] e = "Drivers" -> <<"AddressBooks">>
    [] e = "Orders" -> <<"Customers", "Restaurants", "Drivers", "AddressBooks",
                         "MenuItems", "MenuItemVariants">>
    [] e = "CustomerCareInquiries" -> <<"Customers", "Drivers", "Restaurants">>
    [] e = "RatingReviews" -> <<"Customers", "Drivers", "Restaurants", "Orders">>
    [] OTHER -> <<>>

\* a generateAdditional method that resolves no pool before its loop
AdditionalUpstreamNone(e) == <<>>

\* the ensure methods generateAdditional<Entity> awaits before it calls
\* generateAdditionalEntity, in order
AdditionalUpstream(e) ==
  CASE e = "Orders" -> <<"Customers", "Restaurants", "Drivers", "AddressBooks",
                         "MenuItems", "MenuItemVariants">>
    [] e = "Drivers" -> <<"AddressBooks">>
    [] e = "MenuItems" -> <<"Restaurants", "FoodCategories">>
    [] e = "MenuItemVariants" -> <<"MenuItems">>
    [] e = "Promotions" -> <<"FoodCategories">>
    [] e = "Restaurants" -> <<"AddressBooks", "FoodCategories">>
    [] e = "CustomerCareInquiries" -> <<"Customers", "Drivers", "Restaurants">>
    [] e = "RatingReviews" -> <<"Customers", "Drivers", "Restaurants", "Orders">>
    [] OTHER -> <<>>

\* a createSpecialStatusOrders that awaits ensureOrders as well
SpecialUpstreamWithOrders ==
  <<"Customers", "Restaurants", "Drivers", "AddressBooks", "MenuItems",
    "MenuItemVariants", "Orders">>

\* the pools createSpecialStatusOrders awaits before its loop
SpecialUpstream ==
  <<"Customers", "Restaurants", "Drivers", "AddressBooks", "MenuItems",
    "MenuItemVariants">>

Range(s) == {s[i] : i \in DOMAIN s}

VALID_ORDER_STATUSES ==
  <<"PENDING", "PREPARING", "READY_FOR_PICKUP", "RESTAURANT_PICKUP",
    "DISPATCHED", "EN_ROUTE", "DELIVERED">>

paymentMethods == <<"COD", "FWallet">>

userTypes == <<"Customers", "Drivers", "Restaurants">>

(***************************************************************************)
(* Payload generators.  Math.random() is a pseudo-random generator: its    *)
(* state is the variable rng, and the j-th draw of one generator call is   *)
(* Draw(r, j, n) = floor(random * n).                                      *)
(***************************************************************************)
Draw(r, j, n) == (r + j) % n

\* a pick that answers the id the next record of the pool would get
PickIdAhead(list, r, j) == Len(list) + 1

\* list[Math.floor(Math.random() * list.length)]?.id || null
PickId(list, r, j) ==
  IF Len(list) = 0 THEN Null ELSE list[Draw(r, j, Len(list)) + 1].id

\* the foreign-key fields of a generated payload and the pool each is drawn from
FkSpec(e, r) ==
  CASE e = "FinanceRules" -> <<<<"created_by_id", "SuperAdmins">>>>
    [] e = "Restaurants" -> <<<<"address_id", "AddressBooks">>>>
    [] e = "MenuItems" -> <<<<"restaurant_id", "Restaurants">>,
                            <<"category", "FoodCategories">>>>
    [] e = "MenuItemVariants" -> <<<<"menu_id", "MenuItems">>>>
    [] e = "Promotions" -> <<<<"food_category_ids", "FoodCategories">>>>
    [] e = "Orders" -> <<<<"customer_id", "Customers">>,
                         <<"restaurant_id", "Restaurants">>,
                         <<"customer_location", "AddressBooks">>,
                         <<"restaurant_location", "AddressBooks">>,
                         <<"item_id", "MenuItems">>,
                         <<"variant_id", "MenuItemVariants">>>>
    [] e = "CustomerCareInquiries" -> <<<<"customer_id", "Customers">>>>
    [] e = "RatingReviews" ->
         <<<<"rr_reviewer_id", userTypes[Draw(r, 1, 3) + 1]>>,
           <<"rr_recipient_id", userTypes[Draw(r, 2, 3) + 1]>>,
           <<"order_id", "Orders">>>>
    [] OTHER -> <<>>

\* the closure passed as generateData: one payload from the resolved pools
GenerateData(e, ups, r) ==
  LET spec == FkSpec(e, r) IN
  [status |-> IF e = "Orders"
              THEN VALID_ORDER_STATUSES[Draw(r, 0, Len(VALID_ORDER_STATUSES)) + 1]
              ELSE "none",
   payment_method |-> IF e = "Orders"
                      THEN paymentMethods[Draw(r, 3, Len(paymentMethods)) + 1]
                      ELSE "none",
   fk |-> [i \in DOMAIN spec |-> <<spec[i][1], PickId(ups[spec[i][2]], r, i + 3)>>]]

\* an order payload whose status is left to the random choice
SpecialOrderDataUnforced(status, ups, r) ==
  [GenerateData("Orders", ups, r) EXCEPT !.payment_method = "COD"]

\* the order payload createSpecialStatusOrders builds, with the status forced
SpecialOrderData(status, ups, r) ==
  [GenerateData("Orders", ups, r) EXCEPT !.status = status,
                                         !.payment_method = "COD"]

\* the record the backend stores and answers with for an accepted payload
Created(item, id) ==
  [id |-> id, status |-> item.status, payment_method |-> item.payment_method,
   fk |-> item.fk]

\* a record that exists in the backend before the service runs
Existing(e, id) ==
  [id |-> id,
   status |-> IF e = "Orders" THEN VALID_ORDER_STATUSES[(id % 7) + 1] ELSE "none",
   payment_method |-> IF e = "Orders" THEN "COD" ELSE "none",
   fk |-> <<>>]

\* one character of a string answered in place of an array: it has no id
CharElem == [id |-> Null, status |-> "char", payment_method |-> "none", fk |-> <<>>]

(***************************************************************************)
(* State                                                                   *)
(***************************************************************************)
VARIABLES
  backend,   \* the remote backend: entity -> list of records, in its order
  cache,     \* the value under the key 'data-pools:all' (<<>>: no value)
  stack,     \* the call stack of the running top-level call (<<>>: idle)
  rng,       \* the state of Math.random()
  fault,     \* the way the environment misbehaves in this behaviour
  obs,       \* what the running top-level call has done so far
  last,      \* the most recent completed top-level call
  prev,      \* the call before it, kept when both are ensureDataPools calls
  expired,   \* the cache key expired since the last completed call
  calls,     \* top-level calls started
  drifts,    \* records added by other clients
  ag,        \* the growth loop (AutoGeneratorService): lifecycle, timer, ticks
  parked     \* a second call in progress, suspended at one of its awaits

vars ==
  <<backend, cache, stack, rng, fault, obs, last, prev, expired, calls, drifts, ag,
    parked>>

NoValue == <<>>

\* the growth loop before the module is initialised: no timer, no tick
NoLoop ==
  [init |-> "idle", ensured |-> "none", isInitialized |-> FALSE, intervalId |-> FALSE,
   timer |-> "none", destroyed |-> FALSE, ticks |-> <<>>, caller |-> 0,
   begunAtDestroy |-> 0, kinds |-> {"Customers", "Drivers"}]

\* no GET answered yet
NoRead == [outcome |-> "none", EC |-> 0, kind |-> "none", items |-> <<>>, held |-> 0]

\* the latest invocation of ensureSpecialStatusOrders: the outcome of its read,
\* the orders of either status the backend held then, its POSTs and those accepted
NoSpecial ==
  [read |-> "none", delivered |-> 0, cancelled |-> 0,
   posts |-> [st \in {"DELIVERED", "CANCELLED"} |-> 0],
   ok |-> [st \in {"DELIVERED", "CANCELLED"} |-> 0]]

\* the counters of one top-level call, the answer to its latest pool GET, the
\* wallet steps it ran and its count argument
Obs0 ==
  [reads |-> [e \in Entities |-> 0], writes |-> [e \in Entities |-> 0],
   accepted |-> 0, gens |-> 0, wreads |-> 0, wsets |-> 0,
   csets |-> 0, cdels |-> 0, cgets |-> 0, hit |-> FALSE,
   started |-> <<>>, resolved |-> <<>>, stale |-> <<>>, read |-> NoRead,
   wallets |-> <<>>, wttl |-> {}, arg |-> 0, special |-> NoSpecial]

NoResponse == [status |-> "none", data |-> Null, message |-> "none"]

\* no second call in progress
NoRun == [stack |-> <<>>, obs |-> Obs0]

NoCall == [fn |-> "none", ent |-> "none", status |-> "none", result |-> <<>>,
           obs |-> Obs0, expired |-> FALSE, response |-> NoResponse]

(***************************************************************************)
(* The environment: how the backend and the cache answer                   *)
(***************************************************************************)
\* a fault is either persistent (every call to the target fails in one way) or
\* transient (kind "chaos": any call may fail in any way, left times in all);
\* the target "writes" stands for the POST endpoint of every entity
NoFault == [target |-> "none", kind |-> "none", left |-> 0]

Persistent(target, kind) == [target |-> target, kind |-> kind, left |-> 0]

Transient == fault.kind = "chaos" /\ fault.left > 0

\* the fault after a call with outcome o
Spend(o) ==
  IF fault.kind = "chaos" /\ o # "ok" THEN [fault EXCEPT !.left = @ - 1] ELSE fault

ReadKinds == {"read_throw", "read_ec", "read_object", "read_string", "read_missing"}

WriteKinds == {"write_throw", "write_ec", "write_nodata"}

WalletThrowAt == 1 .. 3

OkWallet == [kind |-> "ok", at |-> 0]

\* the wallet step fails: an error code, the at-th GET or set throws, or a wallet
\* answered without data makes the log line throw
WalletFailures ==
  {[kind |-> "wallet_ec", at |-> 0], [kind |-> "wallet_nodata", at |-> 0]}
  \cup {[kind |-> k, at |-> j] : k \in {"wallet_get_throw", "wallet_set_throw"},
                                 j \in WalletThrowAt}

CacheKinds == {"get_throw", "set_throw", "del_throw"}

\* the outcomes a GET of entity e may have in this behaviour
ReadOutcomes(e) ==
  IF Transient THEN {"ok"} \cup ReadKinds
  ELSE IF fault.target = e /\ fault.kind \in ReadKinds THEN {fault.kind}
  ELSE {"ok"}

\* the outcomes a POST of entity e may have in this behaviour
WriteOutcomes(e) ==
  IF Transient THEN {"ok", "gen_throw"} \cup WriteKinds
  ELSE IF fault.target \in {e, "writes"} /\ fault.kind \in WriteKinds THEN {fault.kind}
  ELSE {"ok"}

\* the outcomes of the wallet reads and wallet cache writes after an order
WalletOutcomes ==
  IF Transient THEN {OkWallet} \cup WalletFailures
  ELSE IF fault.target = "wallet" THEN {[kind |-> fault.kind, at |-> 1]}
  ELSE {OkWallet}

CacheOutcomes(op) ==
  IF fault.target = "cache" /\ fault.kind = op THEN {"throw"} ELSE {"ok"}

\* response.data of a GET: the envelope {EC, data}
ReadResponse(e, o) ==
  CASE o = "ok" -> [EC |-> 0, kind |-> "array", items |-> backend[e]]
    [] o = "read_ec" -> [EC |-> 1, kind |-> "array", items |-> backend[e]]
    [] o = "read_object" -> [EC |-> 0, kind |-> "object", items |-> <<>>]
    [] o = "read_string" ->
         [EC |-> 0, kind |-> "string", items |-> <<CharElem, CharElem>>]
    [] OTHER -> [EC |-> 0, kind |-> "missing", items |-> <<>>]

\* the answer to a GET as the counters keep it, and how many records the
\* backend held when it answered
Answer(e, o) ==
  LET resp == ReadResponse(e, o) IN
  [outcome |-> o, EC |-> resp.EC, kind |-> resp.kind, items |-> resp.items,
   held |-> Len(backend[e])]

(***************************************************************************)
(* ensureEntityPool: the decisions of its code                             *)
(***************************************************************************)
\* currentData taken from the response whatever its error code
CurrentDataIgnoringEC(resp) ==
  IF resp.kind = "array" THEN resp.items ELSE <<>>

\* currentData after the two checks (EC !== 0, !Array.isArray)
CurrentData(resp) ==
  IF resp.EC = 0 /\ resp.kind = "array" THEN resp.items ELSE <<>>

\* Array.prototype.slice(0, n)
Slice(list, n) == SubSeq(list, 1, IF Len(list) < n THEN Len(list) ELSE n)

\* the whole response returned when the pool is already large enough
EnoughDataUnsliced(cur) == cur

\* currentData.slice(0, this.minPoolSize)
EnoughData(cur) == Slice(cur, minPoolSize)

\* one retry too many
MaxAttemptsPlusOne(needed) == needed * 2 + 1

\* const maxAttempts = needed * 2
MaxAttempts(needed) == needed * 2

\* the new records placed before the existing ones
FinalDataNewFirst(cur, newItems) == newItems \o cur

\* const finalData = [...currentData, ...newItems]
FinalData(cur, newItems) == cur \o newItems

\* a read failure that is rethrown instead of answered with []
ReadFailureRethrown == [val |-> <<>>, status |-> "threw"]

\* the outer catch of ensureEntityPool: log and return []
ReadFailure == [val |-> <<>>, status |-> "ok"]

(***************************************************************************)
(* Singleton admin pools: the decisions of their code                      *)
(***************************************************************************)
\* an admin ensure method that never finds its admin
AdminExistsNever(kind, items) == FALSE

\* if (currentData.length >= 1): an object has no length
AdminExists(kind, items) == kind # "object" /\ Len(items) >= 1

\* the admin list returned whole
AdminFinalUnsliced(list) == list

\* currentData.slice(0, 1) and finalData.slice(0, 1)
AdminFinal(list) == Slice(list, 1)

(***************************************************************************)
(* The aggregate cache                                                     *)
(***************************************************************************)
\* a serialisation that keeps the members and loses their lists
JSONStringifyKeys(pools) ==
  [i \in DOMAIN PoolOrder |-> <<PoolOrder[i], <<>>>>]

\* JSON.stringify(pools): the members in insertion order, as key/value pairs
JSONStringify(pools) ==
  [i \in DOMAIN PoolOrder |-> <<PoolOrder[i], pools[PoolOrder[i]]>>]

\* a parse that keeps the members and loses their lists
JSONParseLossy(text) == [e \in {text[i][1] : i \in DOMAIN text} |-> <<>>]

\* JSON.parse(cachedPools): the object with the members of the text
JSONParse(text) ==
  [e \in {text[i][1] : i \in DOMAIN text} |->
     text[CHOOSE i \in DOMAIN text : text[i][1] = e][2]]

\* a cached text that is no JSON
Unparsable == <<<<"unparsable", <<>>>>>>

\* JSON.parse(text) returns: the text is the JSON of an object of pools
Parsable(text) == \A i \in DOMAIN text : text[i][1] \in Entities

\* a cache check that never hits
CacheHitNever(cached) == FALSE

\* if (cachedPools)
CacheHit(cached) == cached # NoValue

\* a delete that leaves the key in place
RedisDelKeep(cached) == cached

\* redisService.del(this.cacheKey)
RedisDel(cached) == NoValue

(***************************************************************************)
(* Frames                                                                  *)
(***************************************************************************)
\* the pools the generator closure of an entity reads
GeneratorReads(e) ==
  CASE e = "FinanceRules" -> {"SuperAdmins"}
    [] e = "Restaurants" -> {"AddressBooks", "FoodCategories"}
    [] e = "MenuItems" -> {"Restaurants", "FoodCategories"}
    [] e = "MenuItemVariants" -> {"MenuItems"}
    [] e = "Promotions" -> {"FoodCategories"}
    [] e = "Drivers" -> {"AddressBooks"}
    [] e = "Orders" -> {"Customers", "Restaurants", "Drivers", "AddressBooks",
                        "MenuItems", "MenuItemVariants"}
    [] e = "CustomerCareInquiries" -> {"Customers"}
    [] e = "RatingReviews" -> {"Customers", "Drivers", "Restaurants", "Orders"}
    [] OTHER -> {}

\* the local variables that hold resolved pools, by function
Locals(fn, e) ==
  CASE fn = "ensureDataPools" -> Entities
    [] fn = "ensure" -> GeneratorReads(e) \cup Range(UpstreamCalls(e))
    [] fn = "createSpecialStatusOrders" -> Range(SpecialUpstream)
    [] fn = "generateAdditionalEntity" ->
         GeneratorReads(e) \cup Range(AdditionalUpstream(e))
    [] OTHER -> {}

FirstPc(fn, e) ==
  CASE fn = "ensureDataPools" -> "get"
    [] fn = "getDataPools" -> "get"
    [] fn = "refreshDataPools" -> "del"
    [] fn = "ensure" -> IF UpstreamCalls(e) = <<>> THEN "read" ELSE "ups"
    [] fn = "ensureSpecialStatusOrders" -> "read"
    [] fn = "generateAdditionalEntity" ->
         IF AdditionalUpstream(e) = <<>> THEN "loop" ELSE "ups"
    [] OTHER -> "ups"

\* a fresh activation of fn (for entity or status e; n: the count argument)
Frame(fn, e, n) ==
  [fn |-> fn, ent |-> e, pc |-> FirstPc(fn, e), k |-> 1,
   ups |-> [u \in Locals(fn, e) |-> <<>>], got |-> {},
   cur |-> <<>>, curKind |-> "array", newItems |-> <<>>,
   succ |-> 0, att |-> 0, needed |-> n, nDel |-> 0, nCan |-> 0]

Top == stack[Len(stack)]

Pop(stk) == SubSeq(stk, 1, Len(stk) - 1)

Running(fn, pc) == stack # <<>> /\ Top.fn = fn /\ Top.pc = pc

\* an ensure method that runs no special step before its own pool
AfterUpstreamNoSpecial(e) == "read"

\* what an ensure method does once its upstream pools are resolved: ensureOrders
\* awaits ensureSpecialStatusOrders, the others go to their own pool
AfterUpstream(e) == IF e = "Orders" THEN "special" ELSE "read"

\* the caller p continues after the awaited callee c returned val
Resume(p, c, val) ==
  IF c.fn # "ensure"
  THEN IF p.fn = "ensure" /\ p.pc = "special" THEN [p EXCEPT !.pc = "read"] ELSE p
  ELSE LET q == [p EXCEPT !.ups[c.ent] = val, !.got = @ \cup {c.ent}, !.k = @ + 1] IN
       CASE p.fn = "ensureDataPools" ->
              [q EXCEPT !.pc = IF q.k > Len(PoolOrder) THEN "set" ELSE "pools"]
         [] p.fn = "ensure" ->
              [q EXCEPT !.pc = IF q.k <= Len(UpstreamCalls(p.ent)) THEN "ups"
                               ELSE AfterUpstream(p.ent)]
         [] p.fn = "generateAdditionalEntity" ->
              [q EXCEPT !.pc = IF q.k > Len(AdditionalUpstream(p.ent)) THEN "loop"
                               ELSE "ups"]
         [] OTHER ->
              [q EXCEPT !.pc = IF q.k > Len(SpecialUpstream) THEN "loop" ELSE "ups"]

\* the callee c has returned (val, st) to the stack stk below it: getDataPools and
\* refreshDataPools return what ensureDataPools returns, an exception passes through
\* every frame but ensureSpecialStatusOrders, whose try/catch absorbs it
RECURSIVE Unwind(_, _, _, _)
Unwind(stk, c, val, st) ==
  IF stk = <<>> THEN [stack |-> <<>>, done |-> TRUE, val |-> val, st |-> st, to |-> "none"]
  ELSE LET p == stk[Len(stk)] IN
       IF st = "threw"
       THEN IF p.fn = "ensureSpecialStatusOrders"
            THEN Unwind(Pop(stk), p, <<>>, "ok")
            ELSE Unwind(Pop(stk), p, val, "threw")
       ELSE IF p.fn \in {"getDataPools", "refreshDataPools"}
       THEN Unwind(Pop(stk), p, val, st)
       ELSE [stack |-> [stk EXCEPT ![Len(stk)] = Resume(p, c, val)],
             done |-> FALSE, val |-> val, st |-> st, to |-> p.fn]

\* the routes of DataPoolController and the service method each awaits
Routes == {"getDataPools", "refreshDataPools", "ensureDataPools"}

SuccessMessage(fn) ==
  CASE fn = "getDataPools" -> "Data pools retrieved successfully"
    [] fn = "refreshDataPools" -> "Data pools refreshed successfully"
    [] OTHER -> "Data pools ensured successfully"

FailureMessage(fn) ==
  CASE fn = "getDataPools" -> "Failed to retrieve data pools"
    [] fn = "refreshDataPools" -> "Failed to refresh data pools"
    [] OTHER -> "Failed to ensure data pools"

\* a handler without its try/catch: it answers success whatever the service did
HandlerNoCatch(fn, st, val) ==
  IF fn \notin Routes THEN NoResponse
  ELSE [status |-> "success", data |-> val, message |-> SuccessMessage(fn)]

\* the handler of a route: try { const pools = await service call; return
\* success } catch { return error }
Handler(fn, st, val) ==
  IF fn \notin Routes THEN NoResponse
  ELSE IF st = "threw"
  THEN [status |-> "error", data |-> Null, message |-> FailureMessage(fn)]
  ELSE [status |-> "success", data |-> val, message |-> SuccessMessage(fn)]

\* the frame on top returns (val, st); o: the counters after this step
Return(val, st, o) ==
  LET u == Unwind(Pop(stack), Top, val, st) IN
  /\ stack' = u.stack
  /\ obs' = IF u.to = "ensureDataPools"
            THEN [o EXCEPT !.resolved = Append(@, Top.ent)] ELSE o
  /\ IF u.done
     THEN /\ last' = [fn |-> stack[1].fn, ent |-> stack[1].ent, status |-> u.st,
                      result |-> u.val, obs |-> o, expired |-> expired,
                      response |-> Handler(stack[1].fn, u.st, u.val)]
          /\ prev' = IF stack[1].fn = "ensureDataPools" /\ last.fn = "ensureDataPools"
                     THEN last ELSE NoCall
          /\ expired' = FALSE
     ELSE UNCHANGED <<last, prev, expired>>

\* the frame on top becomes f and awaits a fresh activation g
Call(f, g) == stack' = Append([stack EXCEPT ![Len(stack)] = f], g)

Goto(f) == stack' = [stack EXCEPT ![Len(stack)] = f]

NextRng == (rng + 1) % RngMod

\* a call that is issued twice
BumpTwice(f, e) == [f EXCEPT ![e] = @ + 2]

\* one more call to the endpoint of e
Bump(f, e) == [f EXCEPT ![e] = @ + 1]

(***************************************************************************)
(* ensureEntityPool (part_000 81-220), called by every bulk ensure method  *)
(***************************************************************************)
\* the GET of the pool and the decision that follows it
PoolRead ==
  /\ Running("ensure", "read")
  /\ Top.ent \in BulkEntities
  /\ \E o \in ReadOutcomes(Top.ent) :
       LET e == Top.ent
           o1 == [obs EXCEPT !.reads = Bump(@, e), !.read = Answer(e, o)]
           cur == CurrentData(ReadResponse(e, o))
       IN
       /\ fault' = Spend(o)
       /\ IF o = "read_throw" THEN Return(ReadFailure.val, ReadFailure.status, o1)
          ELSE IF Len(cur) >= minPoolSize THEN Return(EnoughData(cur), "ok", o1)
          ELSE /\ Goto([Top EXCEPT !.pc = "loop", !.cur = cur,
                                   !.needed = minPoolSize - Len(cur)])
               /\ obs' = o1
               /\ UNCHANGED <<last, prev, expired>>
  /\ UNCHANGED <<parked, backend, cache, rng, calls, drifts, ag>>

\* the time to live of a wallet cache entry: 7200 * 1000 milliseconds
WalletTtl == 7200 * 1000

\* a wallet step after every accepted order, whatever its payment method
WalletAppliesAnyPayment(e, item, w) == w = "ok" /\ e = "Orders"

\* whether the wallet step follows an accepted write
WalletApplies(e, item, w) ==
  w = "ok" /\ e = "Orders" /\ item.payment_method = "FWallet"

\* one pass of the body of the generation loop: what it issued and whether the
\* created record reached newItems
Cycle(e, item, w, wl) ==
  [posts |-> IF w = "gen_throw" THEN 0 ELSE 1,
   accepted |-> w = "ok",
   pushed |-> w = "ok" /\ (WalletApplies(e, item, w) => wl.kind \in {"ok", "wallet_ec"}),
   wreads |-> IF ~WalletApplies(e, item, w) THEN 0
              ELSE IF wl.kind = "wallet_get_throw" THEN wl.at ELSE 3,
   wsets |-> IF ~WalletApplies(e, item, w) THEN 0
             ELSE CASE wl.kind \in {"ok", "wallet_nodata"} -> 3
                    [] wl.kind = "wallet_set_throw" -> wl.at - 1
                    [] OTHER -> 0,
   wallet |-> IF WalletApplies(e, item, w) THEN <<wl>> ELSE <<>>]

\* the counters after one cycle on the write endpoint of e
ObsCycle(o, e, c) ==
  [o EXCEPT !.gens = @ + 1,
            !.writes = IF c.posts = 1 THEN Bump(@, e) ELSE @,
            !.accepted = @ + (IF c.accepted THEN 1 ELSE 0),
            !.wreads = @ + c.wreads,
            !.wsets = @ + c.wsets,
            !.wallets = @ \o c.wallet,
            !.wttl = IF c.wsets > 0 THEN @ \cup {WalletTtl} ELSE @]

\* one iteration of while (successfulCreations < needed && attempts < maxAttempts)
PoolCycle ==
  /\ Running("ensure", "loop")
  /\ Top.succ < Top.needed
  /\ Top.att < MaxAttempts(Top.needed)
  /\ LET e == Top.ent
         item == GenerateData(e, Top.ups, rng)
         rec == Created(item, Len(backend[e]) + 1)
     IN
     \E w \in WriteOutcomes(e) :
       \E wl \in (IF WalletApplies(e, item, w) THEN WalletOutcomes ELSE {OkWallet}) :
         LET c == Cycle(e, item, w, wl) IN
         /\ backend' = IF c.accepted THEN [backend EXCEPT ![e] = Append(@, rec)]
                       ELSE backend
         /\ Goto([Top EXCEPT !.att = @ + 1,
                             !.succ = IF c.pushed THEN @ + 1 ELSE @,
                             !.newItems = IF c.pushed THEN Append(@, rec) ELSE @])
         /\ obs' = ObsCycle(obs, e, c)
         /\ fault' = Spend(IF w = "ok" THEN wl.kind ELSE w)
  /\ rng' = NextRng
  /\ UNCHANGED <<parked, cache, last, prev, expired, calls, drifts, ag>>

\* the loop is over: return [...currentData, ...newItems]
PoolReturn ==
  /\ Running("ensure", "loop")
  /\ ~(Top.succ < Top.needed /\ Top.att < MaxAttempts(Top.needed))
  /\ Return(FinalData(Top.cur, Top.newItems), "ok", obs)
  /\ UNCHANGED <<parked, backend, cache, rng, fault, calls, drifts, ag>>

\* a bulk ensure method awaits its next upstream ensure method
EnsureUpstream ==
  /\ Running("ensure", "ups")
  /\ Call(Top, Frame("ensure", UpstreamCalls(Top.ent)[Top.k], 0))
  /\ UNCHANGED <<parked, backend, cache, rng, fault, obs, last, prev, expired, calls, drifts, ag>>

\* ensureOrders awaits ensureSpecialStatusOrders before its own pool
EnsureOrdersSpecial ==
  /\ Running("ensure", "special")
  /\ Call(Top, Frame("ensureSpecialStatusOrders", "Orders", 0))
  /\ UNCHANGED <<parked, backend, cache, rng, fault, obs, last, prev, expired, calls, drifts, ag>>

(***************************************************************************)
(* ensureSuperAdmins, ensureFinanceAdmins, ensureCompanionAdmins           *)
(***************************************************************************)
\* the role-filtered GET: currentData = response.data?.data || []
AdminRead ==
  /\ Running("ensure", "read")
  /\ Top.ent \in AdminRoles
  /\ \E o \in ReadOutcomes(Top.ent) :
       LET e == Top.ent
           o1 == [obs EXCEPT !.reads = Bump(@, e), !.read = Answer(e, o)]
           resp == ReadResponse(e, o)
           kind == IF resp.kind = "missing" THEN "array" ELSE resp.kind
       IN
       /\ fault' = Spend(o)
       /\ IF o = "read_throw" THEN Return(<<>>, "ok", o1)
          ELSE IF AdminExists(kind, resp.items)
               THEN Return(AdminFinal(resp.items), "ok", o1)
          ELSE /\ Goto([Top EXCEPT !.pc = "post", !.cur = resp.items, !.curKind = kind])
               /\ obs' = o1
               /\ UNCHANGED <<last, prev, expired>>
  /\ UNCHANGED <<parked, backend, cache, rng, calls, drifts, ag>>

\* the single POST, then finalData.slice(0, 1); spreading a currentData that is
\* no iterable throws into the catch, which returns []
AdminPost ==
  /\ Running("ensure", "post")
  /\ LET e == Top.ent
         rec == Created(GenerateData(e, Top.ups, rng), Len(backend[e]) + 1)
     IN
     \E w \in WriteOutcomes(e) \ {"gen_throw"} :
       LET o1 == [obs EXCEPT !.writes = Bump(@, e),
                             !.accepted = @ + (IF w = "ok" THEN 1 ELSE 0)]
           newAdmin == IF w = "ok" THEN <<rec>> ELSE <<>>
       IN
       /\ fault' = Spend(w)
       /\ backend' = IF w = "ok" THEN [backend EXCEPT ![e] = Append(@, rec)]
                     ELSE backend
       /\ IF w = "write_throw" \/ Top.curKind = "object"
          THEN Return(<<>>, "ok", o1)
          ELSE Return(AdminFinal(Top.cur \o newAdmin), "ok", o1)
  /\ rng' = NextRng
  /\ UNCHANGED <<parked, cache, calls, drifts, ag>>

(***************************************************************************)
(* ensureSpecialStatusOrders and createSpecialStatusOrders                 *)
(***************************************************************************)
CountStatus(list, status) ==
  Cardinality({i \in DOMAIN list : list[i].status = status})

Max(a, b) == IF a >= b THEN a ELSE b

\* the GET of /orders and the two needed counts computed from it
SpecialRead ==
  /\ Running("ensureSpecialStatusOrders", "read")
  /\ \E o \in ReadOutcomes("Orders") :
       LET o1 == [obs EXCEPT
                    !.reads = Bump(@, "Orders"),
                    !.special = [NoSpecial EXCEPT
                       !.read = o,
                       !.delivered = CountStatus(backend["Orders"], "DELIVERED"),
                       !.cancelled = CountStatus(backend["Orders"], "CANCELLED")]]
           resp == ReadResponse("Orders", o)
           nd == Max(0, SpecialDelivered - CountStatus(resp.items, "DELIVERED"))
           nc == Max(0, SpecialCancelled - CountStatus(resp.items, "CANCELLED"))
       IN
       /\ fault' = Spend(o)
       /\ IF o = "read_throw" \/ resp.kind \in {"object", "string"} \/ (nd = 0 /\ nc = 0)
          THEN Return(<<>>, "ok", o1)
          ELSE /\ Goto([Top EXCEPT !.pc = IF nd > 0 THEN "delivered" ELSE "cancelled",
                                   !.nDel = nd, !.nCan = nc])
               /\ obs' = o1
               /\ UNCHANGED <<last, prev, expired>>
  /\ UNCHANGED <<parked, backend, cache, rng, calls, drifts, ag>>

\* await this.createSpecialStatusOrders("DELIVERED", neededDelivered)
SpecialCreateDelivered ==
  /\ Running("ensureSpecialStatusOrders", "delivered")
  /\ Call([Top EXCEPT !.pc = IF Top.nCan > 0 THEN "cancelled" ELSE "end"],
          Frame("createSpecialStatusOrders", "DELIVERED", Top.nDel))
  /\ UNCHANGED <<parked, backend, cache, rng, fault, obs, last, prev, expired, calls, drifts, ag>>

\* await this.createSpecialStatusOrders("CANCELLED", neededCancelled)
SpecialCreateCancelled ==
  /\ Running("ensureSpecialStatusOrders", "cancelled")
  /\ Call([Top EXCEPT !.pc = "end"],
          Frame("createSpecialStatusOrders", "CANCELLED", Top.nCan))
  /\ UNCHANGED <<parked, backend, cache, rng, fault, obs, last, prev, expired, calls, drifts, ag>>

SpecialReturn ==
  /\ Running("ensureSpecialStatusOrders", "end")
  /\ Return(<<>>, "ok", obs)
  /\ UNCHANGED <<parked, backend, cache, rng, fault, calls, drifts, ag>>

\* createSpecialStatusOrders awaits the six pools it draws from
CreateSpecialUpstream ==
  /\ Running("createSpecialStatusOrders", "ups")
  /\ Call(Top, Frame("ensure", SpecialUpstream[Top.k], 0))
  /\ UNCHANGED <<parked, backend, cache, rng, fault, obs, last, prev, expired, calls, drifts, ag>>

\* one iteration of for (let i = 0; i < count; i++): build the payload, POST it
CreateSpecialCycle ==
  /\ Running("createSpecialStatusOrders", "loop")
  /\ Top.att < Top.needed
  /\ LET item == SpecialOrderData(Top.ent, Top.ups, rng)
         rec == Created(item, Len(backend["Orders"]) + 1)
     IN
     \E w \in WriteOutcomes("Orders") \ {"gen_throw"} :
       /\ fault' = Spend(w)
       /\ backend' = IF w = "ok" THEN [backend EXCEPT !["Orders"] = Append(@, rec)]
                     ELSE backend
       /\ Goto([Top EXCEPT !.att = @ + 1])
       /\ obs' = [obs EXCEPT !.writes = Bump(@, "Orders"),
                             !.accepted = @ + (IF w = "ok" THEN 1 ELSE 0),
                             !.special.posts[Top.ent] = @ + 1,
                             !.special.ok[Top.ent] = @ + (IF w = "ok" THEN 1 ELSE 0)]
  /\ rng' = NextRng
  /\ UNCHANGED <<parked, cache, last, prev, expired, calls, drifts, ag>>

CreateSpecialReturn ==
  /\ Running("createSpecialStatusOrders", "loop")
  /\ Top.att >= Top.needed
  /\ Return(<<>>, "ok", obs)
  /\ UNCHANGED <<parked, backend, cache, rng, fault, calls, drifts, ag>>

(***************************************************************************)
(* ensureDataPools, getDataPools, refreshDataPools                         *)
(***************************************************************************)
\* const cachedPools = await this.redisService.get(this.cacheKey), in
\* ensureDataPools: a hit returns JSON.parse(cachedPools), whose exception the
\* catch of ensureDataPools throws again
DataPoolsGet ==
  /\ Running("ensureDataPools", "get")
  /\ \E o \in CacheOutcomes("get_throw") :
       LET o1 == [obs EXCEPT !.cgets = @ + 1] IN
       IF o = "throw" THEN Return(NoValue, "threw", o1)
       ELSE IF CacheHit(cache)
            THEN IF Parsable(cache)
                 THEN Return(JSONParse(cache), "ok", [o1 EXCEPT !.hit = TRUE])
                 ELSE Return(NoValue, "threw", [o1 EXCEPT !.hit = TRUE])
       ELSE /\ Goto([Top EXCEPT !.pc = "pools"])
            /\ obs' = o1
            /\ UNCHANGED <<last, prev, expired>>
  /\ UNCHANGED <<parked, backend, cache, rng, fault, calls, drifts, ag>>

\* the next member of the object literal: await this.ensure<Entity>()
DataPoolsNext ==
  /\ Running("ensureDataPools", "pools")
  /\ Call(Top, Frame("ensure", PoolOrder[Top.k], 0))
  /\ obs' = [obs EXCEPT !.started = Append(@, PoolOrder[Top.k])]
  /\ UNCHANGED <<parked, backend, cache, rng, fault, last, prev, expired, calls, drifts, ag>>

\* await this.redisService.set(this.cacheKey, JSON.stringify(pools), ttl); return pools
DataPoolsSet ==
  /\ Running("ensureDataPools", "set")
  /\ \E o \in CacheOutcomes("set_throw") :
       IF o = "throw"
       THEN /\ Return(NoValue, "threw", obs)
            /\ UNCHANGED cache
       ELSE /\ cache' = JSONStringify(Top.ups)
            /\ Return(Top.ups, "ok", [obs EXCEPT !.csets = @ + 1])
  /\ UNCHANGED <<parked, backend, rng, fault, calls, drifts, ag>>

\* getDataPools: the cached value if there is one, else return this.ensureDataPools()
GetDataPoolsGet ==
  /\ Running("getDataPools", "get")
  /\ \E o \in CacheOutcomes("get_throw") :
       LET o1 == [obs EXCEPT !.cgets = @ + 1] IN
       IF o = "throw" THEN Return(NoValue, "threw", o1)
       ELSE IF CacheHit(cache)
            THEN IF Parsable(cache)
                 THEN Return(JSONParse(cache), "ok", [o1 EXCEPT !.hit = TRUE])
                 ELSE Return(NoValue, "threw", [o1 EXCEPT !.hit = TRUE])
       ELSE /\ Call([Top EXCEPT !.pc = "call"], Frame("ensureDataPools", "none", 0))
            /\ obs' = o1
            /\ UNCHANGED <<last, prev, expired>>
  /\ UNCHANGED <<parked, backend, cache, rng, fault, calls, drifts, ag>>

\* refreshDataPools: await this.redisService.del(this.cacheKey), then
\* return this.ensureDataPools()
RefreshDel ==
  /\ Running("refreshDataPools", "del")
  /\ \E o \in CacheOutcomes("del_throw") :
       IF o = "throw"
       THEN /\ Return(NoValue, "threw", obs)
            /\ UNCHANGED cache
       ELSE /\ cache' = RedisDel(cache)
            /\ Call([Top EXCEPT !.pc = "call"], Frame("ensureDataPools", "none", 0))
            /\ obs' = [obs EXCEPT !.cdels = @ + 1]
            /\ UNCHANGED <<last, prev, expired>>
  /\ UNCHANGED <<parked, backend, rng, fault, calls, drifts, ag>>

(***************************************************************************)
(* Callers of the service and the environment                              *)
(***************************************************************************)
Start(fn) ==
  /\ stack = <<>>
  /\ calls < MaxCalls
  /\ stack' = <<Frame(fn, "none", 0)>>
  /\ calls' = calls + 1
  /\ obs' = [Obs0 EXCEPT !.stale = cache]
  /\ UNCHANGED <<parked, backend, cache, rng, fault, last, prev, expired, drifts, ag>>

\* onModuleInit and POST /data-pools/ensure
CallEnsureDataPools == Start("ensureDataPools")

\* GET /data-pools
CallGetDataPools == Start("getDataPools")

\* POST /data-pools/refresh
CallRefreshDataPools == Start("refreshDataPools")

\* the time to live of the cache key runs out between two calls
CacheExpire ==
  /\ stack = <<>>
  /\ calls < MaxCalls
  /\ cache # NoValue
  /\ cache' = NoValue
  /\ expired' = TRUE
  /\ UNCHANGED <<parked, backend, stack, rng, fault, obs, last, prev, calls, drifts, ag>>

DriftEntities == {"Customers"}

\* another client of the backend adds a record between two calls, after the
\* aggregate was cached
Drift ==
  /\ stack = <<>>
  /\ calls < MaxCalls
  /\ cache # NoValue
  /\ drifts < MaxDrift
  /\ \E e \in DriftEntities :
       backend' = [backend EXCEPT ![e] = <<Existing(e, Len(@) + 1)>> \o @]
  /\ drifts' = drifts + 1
  /\ UNCHANGED <<parked, cache, stack, rng, fault, obs, last, prev, expired, calls, ag>>

(***************************************************************************)
(* Initial states                                                          *)
(***************************************************************************)
\* n records that exist already, in the order the backend lists them
Populated(e, n) == [i \in 1 .. n |-> Existing(e, n + 1 - i)]

EmptyBackend == [e \in Entities |-> <<>>]

FullBackend ==
  [e \in Entities |->
     Populated(e, IF e \in AdminRoles THEN Surplus ELSE minPoolSize + Surplus)]

FaultScenarios ==
  {NoFault,
   Persistent("AddressBooks", "read_throw"), Persistent("AddressBooks", "write_ec"),
   Persistent("Orders", "read_ec")}
  \cup {Persistent("cache", k) : k \in CacheKinds}

\* the service is idle; the backend is empty or populated beyond the minimum
Init ==
  /\ backend \in {EmptyBackend, FullBackend}
  /\ cache = NoValue
  /\ stack = <<>>
  /\ rng = 0
  /\ fault \in FaultScenarios
  /\ obs = Obs0
  /\ last = NoCall
  /\ prev = NoCall
  /\ expired = FALSE
  /\ calls = 0
  /\ drifts = 0
  /\ ag = NoLoop
  /\ parked = NoRun

Next ==
  \/ CallEnsureDataPools
  \/ CallGetDataPools
  \/ CallRefreshDataPools
  \/ DataPoolsGet
  \/ DataPoolsNext
  \/ DataPoolsSet
  \/ GetDataPoolsGet
  \/ RefreshDel
  \/ EnsureUpstream
  \/ EnsureOrdersSpecial
  \/ PoolRead
  \/ PoolCycle
  \/ PoolReturn
  \/ AdminRead
  \/ AdminPost
  \/ SpecialRead
  \/ SpecialCreateDelivered
  \/ SpecialCreateCancelled
  \/ SpecialReturn
  \/ CreateSpecialUpstream
  \/ CreateSpecialCycle
  \/ CreateSpecialReturn
  \/ CacheExpire
  \/ Drift

\* the service with its callers: whole orchestration passes
Spec == Init /\ [][Next]_vars

\* the faults of one request: those of Spec and more failures of the backend
HandlerFaults ==
  FaultScenarios
  \cup {Persistent("Orders", "write_throw"), Persistent("Customers", "read_object"),
        Persistent("SuperAdmins", "write_throw"),
        Persistent("wallet", "wallet_get_throw")}

\* one request to a route of DataPoolController: the cache holds nothing, the
\* aggregate of an earlier pass, or a text that is no JSON
InitHandlers ==
  /\ backend \in {EmptyBackend, FullBackend}
  /\ cache \in {NoValue, JSONStringify(backend), Unparsable}
  /\ stack = <<>>
  /\ rng = 0
  /\ fault \in HandlerFaults
  /\ obs = Obs0
  /\ last = NoCall
  /\ prev = NoCall
  /\ expired = FALSE
  /\ calls = MaxCalls - 1
  /\ drifts = 0
  /\ ag = NoLoop
  /\ parked = NoRun

NextHandlers ==
  \/ CallEnsureDataPools
  \/ CallGetDataPools
  \/ CallRefreshDataPools
  \/ DataPoolsGet
  \/ DataPoolsNext
  \/ DataPoolsSet
  \/ GetDataPoolsGet
  \/ RefreshDel
  \/ EnsureUpstream
  \/ EnsureOrdersSpecial
  \/ PoolRead
  \/ PoolCycle
  \/ PoolReturn
  \/ AdminRead
  \/ AdminPost
  \/ SpecialRead
  \/ SpecialCreateDelivered
  \/ SpecialCreateCancelled
  \/ SpecialReturn
  \/ CreateSpecialUpstream
  \/ CreateSpecialCycle
  \/ CreateSpecialReturn

\* the controller: one request at a time
SpecHandlers == InitHandlers /\ [][NextHandlers]_vars

(***************************************************************************)
(* One ensure call studied alone, against an environment that may fail in  *)
(* every way at every step                                                 *)
(***************************************************************************)
PoolSizes == {0, minPoolSize - 2, minPoolSize, minPoolSize + Surplus}

\* the faults of one call: up to MaxFailures failures of any kind at any step, or
\* every read, every write or every wallet step failing in one way
PoolFaults(e) ==
  {[target |-> "any", kind |-> "chaos", left |-> MaxFailures]}
  \cup {Persistent(e, k) : k \in ReadKinds \cup WriteKinds}
  \cup {Persistent("wallet", k.kind) : k \in {x \in WalletFailures : e = "Orders"}}

IsolatedEntities == {"AddressBooks", "Restaurants", "Orders"} \cup AdminRoles

\* the pools captured by the generator closure: all empty, or two records each
Captured(e, n) == [u \in Locals("ensure", e) |-> Populated(u, n)]

InitPool ==
  /\ \E e \in IsolatedEntities, n \in PoolSizes, m \in {0, 2} :
       /\ fault \in PoolFaults(e)
       /\ backend = [EmptyBackend EXCEPT ![e] = Populated(e, n)]
       /\ stack = <<[Frame("ensure", e, 0) EXCEPT !.pc = "read",
                                                  !.ups = Captured(e, m),
                                                  !.got = Locals("ensure", e)]>>
  /\ cache = NoValue
  /\ rng \in 0 .. MaxSeed
  /\ obs = Obs0
  /\ last = NoCall
  /\ prev = NoCall
  /\ expired = FALSE
  /\ calls = 1
  /\ drifts = 0
  /\ ag = NoLoop
  /\ parked = NoRun

NextPool ==
  \/ PoolRead
  \/ PoolCycle
  \/ PoolReturn
  \/ AdminRead
  \/ AdminPost

SpecPool == InitPool /\ [][NextPool]_vars

(***************************************************************************)
(* generateAdditionalEntity (part_000 223-312) studied alone               *)
(***************************************************************************)
\* a loop that goes on after count successful creations
AdditionalGoesOnUnbounded(f) == f.att < MaxAttempts(f.needed)

\* while (successfulCreations < count && attempts < maxAttempts)
AdditionalGoesOn(f) == f.succ < f.needed /\ f.att < MaxAttempts(f.needed)

\* one pass of the loop body of generateAdditionalEntity: as in ensureEntityPool,
\* but its log line after the wallet step reads no wallet data
AdditionalCycleOf(e, item, w, wl) ==
  [Cycle(e, item, w, wl) EXCEPT
     !.pushed = w = "ok" /\ (WalletApplies(e, item, w)
                               => wl.kind \in {"ok", "wallet_ec", "wallet_nodata"})]

\* one iteration of the loop of generateAdditionalEntity
AdditionalCycle ==
  /\ Running("generateAdditionalEntity", "loop")
  /\ AdditionalGoesOn(Top)
  /\ LET e == Top.ent
         item == GenerateData(e, Top.ups, rng)
         rec == Created(item, Len(backend[e]) + 1)
     IN
     \E w \in WriteOutcomes(e) :
       \E wl \in (IF WalletApplies(e, item, w) THEN WalletOutcomes ELSE {OkWallet}) :
         LET c == AdditionalCycleOf(e, item, w, wl) IN
         /\ backend' = IF c.accepted THEN [backend EXCEPT ![e] = Append(@, rec)]
                       ELSE backend
         /\ Goto([Top EXCEPT !.att = @ + 1,
                             !.succ = IF c.pushed THEN @ + 1 ELSE @,
                             !.newItems = IF c.pushed THEN Append(@, rec) ELSE @])
         /\ obs' = ObsCycle(obs, e, c)
         /\ fault' = Spend(IF w = "ok" THEN wl.kind ELSE w)
  /\ rng' = NextRng
  /\ UNCHANGED <<parked, cache, last, prev, expired, calls, drifts, ag>>

\* the loop is over: return newItems
AdditionalReturn ==
  /\ Running("generateAdditionalEntity", "loop")
  /\ ~AdditionalGoesOn(Top)
  /\ Return(Top.newItems, "ok", obs)
  /\ UNCHANGED <<parked, backend, cache, rng, fault, calls, drifts, ag>>

AdditionalEntities == {"Customers", "Orders"}

\* the pool sizes generateAdditionalEntity is called upon
AdditionalSizes == {0, minPoolSize + Surplus}

\* one call generateAdditionalEntity(e, ..., count) on a backend that holds n
\* records of e, with the upstream pools captured by the generator closure
InitAdd ==
  /\ \E e \in AdditionalEntities, n \in AdditionalSizes, m \in {0, 2},
        count \in 0 .. MaxCount :
       /\ fault \in PoolFaults(e) \ {Persistent(e, k) : k \in ReadKinds}
       /\ backend = [EmptyBackend EXCEPT ![e] = Populated(e, n)]
       /\ stack = <<[Frame("generateAdditionalEntity", e, count) EXCEPT
                       !.pc = "loop", !.ups = Captured(e, m),
                       !.got = Locals("ensure", e)]>>
       /\ obs = [Obs0 EXCEPT !.read = [NoRead EXCEPT !.held = n], !.arg = count]
  /\ cache = NoValue
  /\ rng \in 0 .. MaxSeed
  /\ last = NoCall
  /\ prev = NoCall
  /\ expired = FALSE
  /\ calls = 1
  /\ drifts = 0
  /\ ag = NoLoop
  /\ parked = NoRun

NextAdd ==
  \/ AdditionalCycle
  \/ AdditionalReturn

SpecAdd == InitAdd /\ [][NextAdd]_vars

(***************************************************************************)
(* ensureSpecialStatusOrders and ensureOrders, each called alone           *)
(***************************************************************************)
\* d delivered, c cancelled and p pending orders, as the backend lists them
OrdersWith(d, c, p) ==
  [i \in 1 .. d + c + p |->
     [Existing("Orders", d + c + p + 1 - i) EXCEPT
        !.status = IF i <= d THEN "DELIVERED"
                   ELSE IF i <= d + c THEN "CANCELLED" ELSE "PENDING"]]

DeliveredCounts == {0, SpecialDelivered - 2, SpecialDelivered, SpecialDelivered + 1}

CancelledCounts == {0, SpecialCancelled - 1, SpecialCancelled, SpecialCancelled + 1}

\* the faults of these calls: none, every read or every write of the orders
\* failing in one way, or (for ensureSpecialStatusOrders alone) up to MaxFailures
\* failures of any kind at any step
OrdersFaults(fn, d, c, p) ==
  {NoFault}
  \cup {Persistent("Orders", k) : k \in ReadKinds \cup WriteKinds}
  \cup (IF fn = "ensureSpecialStatusOrders" /\ p = 0
           /\ d = SpecialDelivered - 2 /\ c = SpecialCancelled - 1
        THEN {[target |-> "any", kind |-> "chaos", left |-> MaxFailures]} ELSE {})

InitOrders ==
  /\ \E d \in DeliveredCounts, c \in CancelledCounts, p \in {0, 1} :
       /\ backend = [FullBackend EXCEPT !["Orders"] = OrdersWith(d, c, p)]
       /\ \E fn \in {"ensureSpecialStatusOrders", "ensure"} :
            /\ stack = <<Frame(fn, "Orders", 0)>>
            /\ fault \in OrdersFaults(fn, d, c, p)
  /\ cache = NoValue
  /\ rng \in 0 .. MaxSeed
  /\ obs = Obs0
  /\ last = NoCall
  /\ prev = NoCall
  /\ expired = FALSE
  /\ calls = 1
  /\ drifts = 0
  /\ ag = NoLoop
  /\ parked = NoRun

NextOrders ==
  \/ SpecialRead
  \/ SpecialCreateDelivered
  \/ SpecialCreateCancelled
  \/ SpecialReturn
  \/ CreateSpecialUpstream
  \/ CreateSpecialCycle
  \/ CreateSpecialReturn
  \/ EnsureUpstream
  \/ EnsureOrdersSpecial
  \/ PoolRead
  \/ PoolCycle
  \/ PoolReturn

SpecOrders == InitOrders /\ [][NextOrders]_vars

\* ensureEntityPool and generateAdditionalEntity, each called alone
InitLoops == InitPool \/ InitAdd

NextLoops == NextPool \/ NextAdd

SpecLoops == InitLoops /\ [][NextLoops]_vars

(***************************************************************************)
(* The growth loop (AutoGeneratorService,                                  *)
(* src/src/auto-generator/auto-generator.service.ts).  The framework calls *)
(* onModuleInit when the module starts and onModuleDestroy when the        *)
(* application shuts down, after onModuleInit has settled.  Each firing of *)
(* the interval timer starts one tick callback; tick callbacks are async   *)
(* and several can be in progress at once.  A call a tick makes into the   *)
(* data-pool service runs on the call stack; the stack holds one such call *)
(* at a time.                                                              *)
(***************************************************************************)
\* const entities = [...]: the kinds a tick can select
GrowthEntities ==
  <<"Orders", "Customers", "Drivers", "Restaurants", "CustomerCares", "MenuItems",
    "MenuItemVariants", "Promotions", "CustomerCareInquiries", "RatingReviews">>

\* the kinds the ticks select among in the behaviours of the whole growth loop
SelectedKinds == NoLoop.kinds

\* the Set selectedEntities in insertion order: 1 to 3 pairwise distinct kinds,
\* among those Math.random() lets the ticks of this behaviour select (ag.kinds)
Selections ==
  {sel \in UNION {[1 .. n -> ag.kinds \cap Range(GrowthEntities)] : n \in 1 .. 3} :
     \A i, j \in DOMAIN sel : i # j => sel[i] # sel[j]}

\* getRandomCount(): Math.floor(Math.random() * 3) + 1
GetRandomCount(r) == Draw(r, 0, 3) + 1

\* a loop that is started whatever the initial ensureDataPools did
InitContinuesAlways(status) == TRUE

\* onModuleInit goes on after await this.dataPoolService.ensureDataPools() only
\* if that call returned: an exception leaves onModuleInit at the await
InitContinues(status) == status = "ok"

\* a destroy hook that leaves the timer running
ClearIntervalNoop(timer) == timer

\* clearInterval(this.intervalId)
ClearInterval(timer) == "cleared"

\* a tick callback at position pc; chosen, called and waited keep what the tick
\* in progress selected, the calls it began and the delays it awaited
NewTick(pc) ==
  [pc |-> pc, status |-> "none", left |-> 0, nCan |-> 0, order |-> Null,
   sel |-> <<>>, count |-> 0, chosen |-> <<>>, called |-> <<>>, waited |-> 0]

TickAt(i, pc) == i \in DOMAIN ag.ticks /\ ag.ticks[i].pc = pc

\* the service is free for a call of the growth loop
ServiceFree == stack = <<>> /\ ag.caller = 0 /\ ag.init # "awaiting"

\* the call of tick i has returned
Returned(i) == stack = <<>> /\ ag.caller = i

\* a call of the growth loop into the data-pool service begins
Enter(f) ==
  /\ stack' = <<f>>
  /\ obs' = [Obs0 EXCEPT !.stale = cache, !.arg = f.needed,
                         !.read = [NoRead EXCEPT !.held =
                                     IF f.ent \in Entities THEN Len(backend[f.ent]) ELSE 0]]

\* onModuleInit up to its await: this.dataPoolService.ensureDataPools() is called
ModuleInit ==
  /\ ag.init = "idle"
  /\ stack = <<>>
  /\ Enter(Frame("ensureDataPools", "none", 0))
  /\ ag' = [ag EXCEPT !.init = "awaiting"]
  /\ UNCHANGED <<parked, backend, cache, rng, fault, last, prev, expired, calls, drifts>>

\* the awaited ensureDataPools has settled: isInitialized = true and
\* startGenerationLoop(), whose setInterval arms the timer, or the exception
\* leaves onModuleInit
ModuleInitResumes ==
  /\ ag.init = "awaiting"
  /\ stack = <<>>
  /\ ag' = IF InitContinues(last.status)
           THEN [ag EXCEPT !.init = "done", !.ensured = last.status,
                           !.isInitialized = TRUE, !.intervalId = TRUE,
                           !.timer = "armed"]
           ELSE [ag EXCEPT !.init = "threw", !.ensured = last.status]
  /\ UNCHANGED <<parked, backend, cache, stack, rng, fault, obs, last, prev, expired,
                 calls, drifts>>

\* onModuleDestroy: if (this.intervalId) clearInterval(this.intervalId)
ModuleDestroy ==
  /\ ag.init \in {"done", "threw"}
  /\ ~ag.destroyed
  /\ ag' = [ag EXCEPT !.destroyed = TRUE,
                      !.begunAtDestroy = Len(ag.ticks),
                      !.timer = IF ag.intervalId THEN ClearInterval(@) ELSE @]
  /\ UNCHANGED <<parked, backend, cache, stack, rng, fault, obs, last, prev, expired,
                 calls, drifts>>

\* the timer fires and a tick callback begins: it returns at once when the
\* service is not initialised, else Math.random() < 0.8 decides whether it first
\* awaits ensureSpecialStatusOrders
TimerFires ==
  /\ ag.timer = "armed"
  /\ Len(ag.ticks) < MaxTicks
  /\ \E check \in BOOLEAN :
       ag' = [ag EXCEPT !.ticks =
                Append(@, NewTick(IF ~ag.isInitialized THEN "done"
                                  ELSE IF check THEN "special_read" ELSE "decide"))]
  /\ UNCHANGED <<parked, backend, cache, stack, rng, fault, obs, last, prev, expired,
                 calls, drifts>>

\* a loop that is left at the end of its first iteration
NextSpecialOnce(t) ==
  IF t.status = "DELIVERED" /\ t.nCan > 0
  THEN [t EXCEPT !.status = "CANCELLED", !.left = t.nCan, !.nCan = 0,
                 !.pc = "special_call", !.order = Null]
  ELSE [t EXCEPT !.pc = "decide", !.status = "none", !.left = 0, !.order = Null]

\* the iteration of generateSpecialStatusOrders after this one, the loop for
\* CANCELLED after the loop for DELIVERED, or the end of the special check
NextSpecial(t) ==
  IF t.left > 1 THEN [t EXCEPT !.left = @ - 1, !.pc = "special_call", !.order = Null]
  ELSE IF t.status = "DELIVERED" /\ t.nCan > 0
  THEN [t EXCEPT !.status = "CANCELLED", !.left = t.nCan, !.nCan = 0,
                 !.pc = "special_call", !.order = Null]
  ELSE [t EXCEPT !.pc = "decide", !.status = "none", !.left = 0, !.order = Null]

\* the GET of /orders in the growth loop's ensureSpecialStatusOrders and the two
\* needed counts; an exception or an answer that is no array ends the check
TickSpecialRead(i) ==
  /\ TickAt(i, "special_read")
  /\ \E o \in ReadOutcomes("Orders") :
       LET resp == ReadResponse("Orders", o)
           nd == Max(0, SpecialDelivered - CountStatus(resp.items, "DELIVERED"))
           nc == Max(0, SpecialCancelled - CountStatus(resp.items, "CANCELLED"))
           t == ag.ticks[i]
       IN
       /\ fault' = Spend(o)
       /\ ag' = [ag EXCEPT !.ticks[i] =
                   IF o = "read_throw" \/ resp.kind \in {"object", "string"}
                      \/ (nd = 0 /\ nc = 0)
                   THEN [t EXCEPT !.pc = "decide"]
                   ELSE [t EXCEPT !.pc = "special_call",
                                  !.status = IF nd > 0 THEN "DELIVERED" ELSE "CANCELLED",
                                  !.left = IF nd > 0 THEN nd ELSE nc,
                                  !.nCan = IF nd > 0 THEN nc ELSE 0]]
  /\ UNCHANGED <<parked, backend, cache, stack, rng, obs, last, prev, expired, calls, drifts>>

\* await this.dataPoolService.generateAdditionalOrders(1)
TickSpecialCall(i) ==
  /\ TickAt(i, "special_call")
  /\ ServiceFree
  /\ Enter(Frame("generateAdditionalEntity", "Orders", 1))
  /\ ag' = [ag EXCEPT !.ticks[i].pc = "special_await", !.caller = i]
  /\ UNCHANGED <<parked, backend, cache, rng, fault, last, prev, expired, calls, drifts>>

\* the call has returned: if (orders && orders.length > 0) and the order has an
\* id, the status update follows
TickSpecialResumes(i) ==
  /\ TickAt(i, "special_await")
  /\ Returned(i)
  /\ LET t == ag.ticks[i]
         orders == last.result
     IN
     ag' = [ag EXCEPT !.caller = 0,
                      !.ticks[i] =
                        IF last.status = "ok" /\ Len(orders) > 0 /\ orders[1].id # Null
                        THEN [t EXCEPT !.pc = "special_put", !.order = orders[1].id]
                        ELSE NextSpecial(t)]
  /\ UNCHANGED <<parked, backend, cache, stack, rng, fault, obs, last, prev, expired,
                 calls, drifts>>

PutOutcomes == IF Transient THEN {"ok", "put_throw", "put_ec"} ELSE {"ok"}

\* the backend after PUT /orders/{id} with {status}
UpdateStatus(list, id, status) ==
  [j \in DOMAIN list |->
     IF list[j].id = id THEN [list[j] EXCEPT !.status = status] ELSE list[j]]

\* await axios.put(`${this.realBackendUrl}/orders/${orderId}`, { status })
TickSpecialPut(i) ==
  /\ TickAt(i, "special_put")
  /\ LET t == ag.ticks[i] IN
     \E o \in PutOutcomes :
       /\ fault' = Spend(o)
       /\ backend' = IF o = "ok"
                     THEN [backend EXCEPT !["Orders"] = UpdateStatus(@, t.order, t.status)]
                     ELSE backend
       /\ ag' = [ag EXCEPT !.ticks[i] = NextSpecial(t)]
  /\ UNCHANGED <<parked, cache, stack, rng, obs, last, prev, expired, calls, drifts>>

\* if (Math.random() > 0.3) return; else the kinds are selected and the count of
\* the first is drawn
TickDecide(i) ==
  /\ TickAt(i, "decide")
  /\ \E generate \in BOOLEAN :
       IF generate
       THEN \E sel \in Selections :
              ag' = [ag EXCEPT !.ticks[i].pc = "wait", !.ticks[i].sel = sel,
                               !.ticks[i].chosen = sel,
                               !.ticks[i].count = GetRandomCount(rng)]
       ELSE ag' = [ag EXCEPT !.ticks[i].pc = "done"]
  /\ rng' = NextRng
  /\ UNCHANGED <<parked, backend, cache, stack, fault, obs, last, prev, expired, calls, drifts>>

\* await new Promise((resolve) => setTimeout(resolve, this.getRandomInterval()))
TickWait(i) ==
  /\ TickAt(i, "wait")
  /\ ag' = [ag EXCEPT !.ticks[i].pc = "generate_call", !.ticks[i].waited = @ + 1]
  /\ UNCHANGED <<parked, backend, cache, stack, rng, fault, obs, last, prev, expired,
                 calls, drifts>>

\* await this.dataPoolService.generateAdditional<Entity>(count, ...)
TickGenerateCall(i) ==
  /\ TickAt(i, "generate_call")
  /\ ServiceFree
  /\ Enter(Frame("generateAdditionalEntity", ag.ticks[i].sel[1], ag.ticks[i].count))
  /\ ag' = [ag EXCEPT !.ticks[i].pc = "generate_await", !.caller = i,
                      !.ticks[i].called =
                        Append(@, <<ag.ticks[i].sel[1], ag.ticks[i].count>>)]
  /\ UNCHANGED <<parked, backend, cache, rng, fault, last, prev, expired, calls, drifts>>

\* a loop over the selected kinds that ends at the first call without a record
LoopEndsOnFailure(sel, result) == Len(sel) = 1 \/ result = <<>>

\* for (const entity of selectedEntities) is over after the last selected kind,
\* whatever the calls did: the try/catch inside the loop surrounds the switch only
LoopEnds(sel, result) == Len(sel) = 1

\* the call has returned or thrown into the inner catch: the next selected kind,
\* or the end of the tick
TickGenerateResumes(i) ==
  /\ TickAt(i, "generate_await")
  /\ Returned(i)
  /\ LET t == ag.ticks[i] IN
     ag' = [ag EXCEPT !.caller = 0,
                      !.ticks[i] =
                        IF ~LoopEnds(t.sel, last.result)
                        THEN [t EXCEPT !.pc = "wait", !.sel = Tail(@),
                                       !.count = GetRandomCount(rng)]
                        ELSE [t EXCEPT !.pc = "done", !.sel = Tail(@), !.count = 0,
                                       !.chosen = <<>>, !.called = <<>>,
                                       !.waited = 0]]
  /\ rng' = NextRng
  /\ UNCHANGED <<parked, backend, cache, stack, fault, obs, last, prev, expired, calls, drifts>>

\* generateAdditional<Entity> awaits the ensure methods its generator draws from
AdditionalUpstreamCall ==
  /\ Running("generateAdditionalEntity", "ups")
  /\ Call(Top, Frame("ensure", AdditionalUpstream(Top.ent)[Top.k], 0))
  /\ UNCHANGED <<parked, backend, cache, rng, fault, obs, last, prev, expired, calls, drifts, ag>>

\* the aggregate a previous run of the service left in the cache
WarmCache(b) == JSONStringify([e \in Entities |-> b[e]])

StartFaults == {NoFault, Persistent("cache", "get_throw"), Persistent("cache", "set_throw")}

\* the module starts: the backend populated (with the special-status orders, or
\* short of one order of each and of the super admin), the cache cold or warm,
\* the cache client working or failing
InitAuto ==
  /\ \E short \in BOOLEAN :
       /\ backend =
            [FullBackend EXCEPT
               !["Orders"] = IF short
                             THEN OrdersWith(SpecialDelivered - 1, SpecialCancelled - 1, 1)
                             ELSE OrdersWith(SpecialDelivered, SpecialCancelled, 3),
               !["SuperAdmins"] = IF short THEN <<>> ELSE @]
       /\ \/ cache \in {NoValue, WarmCache(backend)} /\ fault = NoFault
          \/ cache = NoValue /\ ~short /\ fault \in StartFaults
  /\ stack = <<>>
  /\ rng = 0
  /\ obs = Obs0
  /\ last = NoCall
  /\ prev = NoCall
  /\ expired = FALSE
  /\ calls = 0
  /\ drifts = 0
  /\ ag = NoLoop
  /\ parked = NoRun

Tick ==
  \E i \in 1 .. MaxTicks :
    \/ TickSpecialRead(i)
    \/ TickSpecialCall(i)
    \/ TickSpecialResumes(i)
    \/ TickSpecialPut(i)
    \/ TickDecide(i)
    \/ TickWait(i)
    \/ TickGenerateCall(i)
    \/ TickGenerateResumes(i)

NextAuto ==
  \/ ModuleInit
  \/ ModuleInitResumes
  \/ ModuleDestroy
  \/ TimerFires
  \/ Tick
  \/ AdditionalUpstreamCall
  \/ AdditionalCycle
  \/ AdditionalReturn
  \/ DataPoolsGet
  \/ DataPoolsNext
  \/ DataPoolsSet
  \/ EnsureUpstream
  \/ EnsureOrdersSpecial
  \/ PoolRead
  \/ PoolCycle
  \/ PoolReturn
  \/ AdminRead
  \/ AdminPost
  \/ SpecialRead
  \/ SpecialCreateDelivered
  \/ SpecialCreateCancelled
  \/ SpecialReturn
  \/ CreateSpecialUpstream
  \/ CreateSpecialCycle
  \/ CreateSpecialReturn

\* the growth loop with the service it drives
SpecAuto == InitAuto /\ [][NextAuto]_vars

(***************************************************************************)
(* One tick callback of the growth loop studied alone                      *)
(***************************************************************************)
\* the kinds Math.random() lets the tick select among
TickKinds == {"Customers", "CustomerCares", "Drivers"}

\* the faults of one tick: none, or every POST of one kind throwing
TickFaults == {NoFault} \cup {Persistent(k, "write_throw") : k \in TickKinds}

\* the module is initialised, the timer has fired and a tick callback has begun:
\* it first checks the special-status orders, or goes on to its decision
InitTick ==
  /\ backend =
       [FullBackend EXCEPT
          !["Orders"] = OrdersWith(SpecialDelivered, SpecialCancelled, minPoolSize)]
  /\ cache = WarmCache(backend)
  /\ stack = <<>>
  /\ rng \in 0 .. MaxSeed
  /\ fault \in TickFaults
  /\ obs = Obs0
  /\ last = NoCall
  /\ prev = NoCall
  /\ expired = FALSE
  /\ calls = 0
  /\ drifts = 0
  /\ \E pc \in {"special_read", "decide"} :
       ag = [NoLoop EXCEPT !.init = "done", !.ensured = "ok", !.isInitialized = TRUE,
                           !.intervalId = TRUE, !.timer = "armed",
                           !.kinds = TickKinds, !.ticks = <<NewTick(pc)>>]
  /\ parked = NoRun

NextTick ==
  \/ \E i \in DOMAIN ag.ticks :
       \/ TickSpecialRead(i)
       \/ TickDecide(i)
       \/ TickWait(i)
       \/ TickGenerateCall(i)
       \/ TickGenerateResumes(i)
  \/ AdditionalUpstreamCall
  \/ AdditionalCycle
  \/ AdditionalReturn
  \/ PoolRead

SpecTick == InitTick /\ [][NextTick]_vars

(***************************************************************************)
(* Two calls of the service in progress at once.  DataPoolService is a     *)
(* singleton without a lock, a flag or a queue around its methods: a       *)
(* request that arrives while another call is suspended at an await runs   *)
(* on the same event loop, and the two calls take turns at their awaits.   *)
(* The variable stack holds the call whose step comes next, parked the     *)
(* other one with its counters.                                            *)
(***************************************************************************)
\* a service that lets a second call in only when the first has returned
MayResumeExcluded(p) == p.stack # <<>> /\ stack = <<>>

\* the suspended call can be resumed at any await of the running one
MayResume(p) == p.stack # <<>>

\* the event loop resumes the suspended call; the running one is suspended at
\* its await, or has returned
Switch ==
  /\ MayResume(parked)
  /\ stack' = parked.stack
  /\ obs' = parked.obs
  /\ parked' = [stack |-> stack, obs |-> obs]
  /\ UNCHANGED <<backend, cache, rng, fault, last, prev, expired, calls, drifts, ag>>

\* the entity the backend is short of when the two calls begin, and by how much
RaceEntity == "Customers"

RaceShortage == 1

\* the first of the two calls: POST /data-pools/refresh
RaceCallers == {"refreshDataPools"}

\* two requests have arrived; the backend holds every pool and the special-status
\* orders, but is short of RaceShortage records of RaceEntity; the cache is cold
InitRace ==
  /\ backend =
       [FullBackend EXCEPT
          ![RaceEntity] = Populated(RaceEntity, minPoolSize - RaceShortage),
          !["Orders"] = OrdersWith(SpecialDelivered, SpecialCancelled, minPoolSize)]
  /\ cache = NoValue
  /\ \E fn \in RaceCallers : stack = <<Frame(fn, "none", 0)>>
  /\ parked = [stack |-> <<Frame("ensureDataPools", "none", 0)>>, obs |-> Obs0]
  /\ rng = 0
  /\ fault = NoFault
  /\ obs = Obs0
  /\ last = NoCall
  /\ prev = NoCall
  /\ expired = FALSE
  /\ calls = MaxCalls
  /\ drifts = 0
  /\ ag = NoLoop

NextRace ==
  \/ Switch
  \/ DataPoolsGet
  \/ DataPoolsNext
  \/ DataPoolsSet
  \/ RefreshDel
  \/ EnsureUpstream
  \/ EnsureOrdersSpecial
  \/ PoolRead
  \/ PoolCycle
  \/ PoolReturn
  \/ AdminRead
  \/ SpecialRead

SpecRace == InitRace /\ [][NextRace]_vars

(***************************************************************************)
(* Properties of one ensure call (SpecPool)                                *)
(***************************************************************************)
\* a bulk ensure call alone on the stack has returned
PoolDone == stack = <<>> /\ last.fn = "ensure" /\ last.ent \in BulkEntities

\* an admin ensure call alone on the stack has returned
AdminDone == stack = <<>> /\ last.fn = "ensure" /\ last.ent \in AdminRoles

\* the GET of the call was answered with EC = 0 and an array
ReadSucceeded == obs.read.outcome # "read_throw" /\ obs.read.EC = 0 /\ obs.read.kind = "array"

\* the GET of the call was answered, with an error code or without an array
ReadMalformed ==
  obs.read.outcome \notin {"none", "read_throw"} /\ ~(obs.read.EC = 0 /\ obs.read.kind = "array")

NoWrites(o) == \A e \in Entities : o.writes[e] = 0

\* the records the backend accepted during the call, in creation order
CreatedDuring(e) == SubSeq(backend[e], obs.read.held + 1, Len(backend[e]))

\* s lists some elements of t, each once, in the order of t
RECURSIVE IsOrderedPick(_, _)
IsOrderedPick(s, t) ==
  IF s = <<>> THEN TRUE
  ELSE IF t = <<>> THEN FALSE
  ELSE IF Head(s) = Head(t) THEN IsOrderedPick(Tail(s), Tail(t))
  ELSE IsOrderedPick(s, Tail(t))

\* C1: when the read succeeds (EC = 0, data an array) and reports at least
\* minPoolSize records, the call issues no write and returns exactly the first
\* minPoolSize records of the response, in the order received
C1_EnoughDataNoWrites ==
  (PoolDone /\ ReadSucceeded /\ Len(obs.read.items) >= minPoolSize)
    => /\ last.status = "ok"
       /\ NoWrites(obs)
       /\ obs.gens = 0
       /\ obs.reads[last.ent] = 1
       /\ last.result = [i \in 1 .. minPoolSize |-> obs.read.items[i]]

\* a call that read more than minPoolSize records has returned the first minPoolSize
C1_Witness ==
  /\ PoolDone
  /\ ReadSucceeded
  /\ Len(obs.read.items) = minPoolSize + Surplus
  /\ Len(last.result) = minPoolSize
  /\ last.result[1] = obs.read.items[1]

\* C2: when the read reports currentCount < minPoolSize, the call issues at most
\* needed * 2 writes (needed = minPoolSize - currentCount) and returns the
\* existing records followed by at most needed newly created records, in creation
\* order, nothing reordered, nothing removed
C2_BoundedGeneration ==
  (PoolDone /\ ReadSucceeded /\ Len(obs.read.items) < minPoolSize)
    => LET existing == obs.read.items
           needed == minPoolSize - Len(existing)
           fresh == SubSeq(last.result, Len(existing) + 1, Len(last.result))
       IN
       /\ obs.writes[last.ent] <= needed * 2
       /\ obs.gens <= needed * 2
       /\ Len(last.result) >= Len(existing)
       /\ SubSeq(last.result, 1, Len(existing)) = existing
       /\ Len(fresh) <= needed
       /\ IsOrderedPick(fresh, CreatedDuring(last.ent))

\* a call that read two records fewer than minPoolSize has lost one write and
\* still returned minPoolSize records
C2_Witness ==
  /\ PoolDone
  /\ ReadSucceeded
  /\ Len(obs.read.items) = minPoolSize - 2
  /\ Len(last.result) = minPoolSize
  /\ obs.writes[last.ent] > minPoolSize - Len(obs.read.items)

\* C3: no exception leaves ensureEntityPool whatever the backend, the cache and
\* the generator do: a read that throws makes it return the empty list without
\* any write, and a failure inside a generation cycle counts as one attempt of
\* the loop, which goes on
C3_NoExceptionEscapes ==
  /\ PoolDone => last.status = "ok"
  /\ (PoolDone /\ obs.read.outcome = "read_throw")
       => (last.result = <<>> /\ NoWrites(obs) /\ obs.gens = 0)
  /\ (Running("ensure", "loop") /\ Top.ent \in BulkEntities)
       => (Top.att = obs.gens /\ Top.succ = Len(Top.newItems) /\ Top.succ <= Top.att)
  /\ (PoolDone /\ ReadSucceeded /\ Len(obs.read.items) < minPoolSize /\ NoWrites(obs))
       => last.result = obs.read.items

\* the read of a call threw and the call returned the empty list
C3_Witness ==
  /\ PoolDone
  /\ obs.read.outcome = "read_throw"
  /\ last.status = "ok"
  /\ last.result = <<>>

\* a cycle of a call failed before its write (the generator threw), the loop went
\* on and the call returned
C3_CycleWitness ==
  /\ PoolDone
  /\ ReadSucceeded
  /\ obs.gens > obs.writes[last.ent]
  /\ Len(last.result) = minPoolSize

C10_MalformedReadIsEmpty ==
  /\ (Running("ensure", "loop") /\ Top.ent \in BulkEntities /\ ReadMalformed)
       => (Top.cur = <<>> /\ Top.needed = minPoolSize)
  /\ (Running("ensure", "loop") /\ Top.ent \in BulkEntities /\ ReadSucceeded)
       => (Top.cur = obs.read.items /\ Top.needed = minPoolSize - Len(Top.cur))
  /\ (PoolDone /\ ReadMalformed)
       => /\ IsOrderedPick(last.result, CreatedDuring(last.ent))
          /\ Len(last.result) <= minPoolSize
          /\ obs.gens >= Len(last.result)

\* a read answered with an error code and more than minPoolSize records was
\* followed by minPoolSize creations, which alone were returned
C10_Witness ==
  /\ PoolDone
  /\ obs.read.outcome = "read_ec"
  /\ Len(obs.read.items) > minPoolSize
  /\ Len(last.result) = minPoolSize
  /\ obs.accepted = minPoolSize

(***************************************************************************)
(* Properties of the orchestration and its cache (Spec)                    *)
(***************************************************************************)
\* a top-level call of fn has returned or thrown
CallDone(fn) == stack = <<>> /\ last.fn = fn

NoReads(o) == \A e \in Entities : o.reads[e] = 0

\* the call touched neither the backend nor the wallets
NoBackendCall(o) ==
  NoReads(o) /\ NoWrites(o) /\ o.gens = 0 /\ o.accepted = 0 /\ o.wreads = 0

IsPrefix(s, t) == Len(s) <= Len(t) /\ s = SubSeq(t, 1, Len(s))

\* C4: two ensureDataPools calls in succession, the cache key neither deleted
\* nor expired in between: the two aggregates are identical and the second
\* call, served from the cache, writes nothing to the backend
C4_SecondCallFromCache ==
  (/\ CallDone("ensureDataPools")
   /\ prev.fn = "ensureDataPools"
   /\ prev.status = "ok"
   /\ ~last.expired)
    => /\ last.status = "ok"
       /\ last.result = prev.result
       /\ NoWrites(last.obs)
       /\ last.obs.hit
       /\ last.obs.gens = 0

\* the first call generated records, the second returned the same aggregate
C4_Witness ==
  /\ CallDone("ensureDataPools")
  /\ prev.fn = "ensureDataPools"
  /\ prev.status = "ok"
  /\ ~last.expired
  /\ prev.obs.accepted > 0
  /\ Len(prev.result["Orders"]) >= minPoolSize
  /\ last.result = prev.result

\* the order of the members of the aggregate, as the specification lists it
ExpectedOrder ==
  <<"AddressBooks", "FoodCategories", "SuperAdmins", "FinanceAdmins",
    "CompanionAdmins", "FinanceRules", "Restaurants", "MenuItems",
    "MenuItemVariants", "Promotions", "Drivers", "Customers", "CustomerCares",
    "Orders", "CustomerCareInquiries", "RatingReviews">>

\* a refreshDataPools call is under way, its delete behind it
Refreshing == stack # <<>> /\ stack[1].fn = "refreshDataPools" /\ Len(stack) > 1

\* C5: refreshDataPools deletes the cache key before it recomputes anything, and
\* what it returns was read from the backend during the refresh, not taken from
\* the value the cache held when the refresh began
C5_RefreshReadsThrough ==
  /\ (stack # <<>> /\ stack[1].fn = "refreshDataPools" /\ obs.cdels = 0)
       => (Len(stack) = 1 /\ NoBackendCall(obs) /\ obs.started = <<>> /\ obs.cgets = 0)
  /\ Refreshing
       => (obs.cdels = 1 /\ ~obs.hit /\ (obs.csets = 0 => cache = NoValue))
  /\ (CallDone("refreshDataPools") /\ last.status = "ok")
       => /\ obs.cdels = 1
          /\ ~obs.hit
          /\ obs.resolved = ExpectedOrder
          /\ \A e \in Entities : obs.reads[e] >= 1
          /\ obs.csets = 1
          /\ ~expired => cache = JSONStringify(last.result)

\* a refresh that began with a cached aggregate returned another one, with the
\* record added to the backend since
C5_Witness ==
  /\ CallDone("refreshDataPools")
  /\ last.status = "ok"
  /\ obs.stale # NoValue
  /\ last.result # JSONParse(obs.stale)
  /\ last.result["Customers"][1] = backend["Customers"][1]

\* the frame is about to invoke, or has invoked, the generator of its entity
Generating(f) ==
  \/ f.fn = "ensure" /\ f.pc \in {"loop", "post"}
  \/ f.fn = "createSpecialStatusOrders" /\ f.pc = "loop"

\* the pools the generator of the frame reads
Upstream(f) ==
  IF f.fn = "ensure" THEN GeneratorReads(f.ent) ELSE Range(SpecialUpstream)

\* C6: the generator of an entity is invoked only after an ensure call of each
\* upstream pool has returned to its caller; the restaurant generator only after
\* ensureAddressBooks and ensureFoodCategories returned, be it with empty lists
C6_UpstreamResolvedFirst ==
  \A i \in DOMAIN stack :
    Generating(stack[i])
      => /\ Upstream(stack[i]) \subseteq stack[i].got
         /\ stack[i].fn = "ensure" /\ stack[i].ent = "Restaurants"
              => {"AddressBooks", "FoodCategories"} \subseteq stack[i].got

\* the restaurant generator has run after the address book pool resolved empty
C6_Witness ==
  /\ stack # <<>>
  /\ Top.fn = "ensure"
  /\ Top.ent = "Restaurants"
  /\ Top.pc = "loop"
  /\ Top.att > 0
  /\ Top.ups["AddressBooks"] = <<>>
  /\ {"AddressBooks", "FoodCategories"} \subseteq Top.got

\* the frames of ensure calls awaited directly by ensureDataPools
PoolFrames ==
  {i \in DOMAIN stack : i > 1 /\ stack[i].fn = "ensure"
                              /\ stack[i - 1].fn = "ensureDataPools"}

\* C8: on a cache miss ensureDataPools resolves the pools one at a time in the
\* fixed order, and writes the cache key only after the last pool resolved; it
\* writes none if the pass does not reach the end
C8_SequentialFixedOrder ==
  /\ IsPrefix(obs.started, ExpectedOrder)
  /\ IsPrefix(obs.resolved, obs.started)
  /\ Len(obs.started) - Len(obs.resolved) \in {0, 1}
  /\ Cardinality(PoolFrames) = Len(obs.started) - Len(obs.resolved)
  /\ \A i \in PoolFrames : stack[i].ent = obs.started[Len(obs.started)]
  /\ (obs.started = <<>>) => NoBackendCall(obs)
  /\ obs.csets > 0 => (obs.csets = 1 /\ obs.resolved = ExpectedOrder)
  /\ (obs.resolved # ExpectedOrder /\ stack # <<>>) => cache = obs.stale \/ cache = NoValue

\* a pass has resolved all the pools and written the cache key
C8_Witness ==
  /\ CallDone("ensureDataPools")
  /\ last.status = "ok"
  /\ ~obs.hit
  /\ obs.resolved = ExpectedOrder
  /\ obs.csets = 1
  /\ obs.accepted > 0

\* C9: when the cache key holds a value, ensureDataPools and getDataPools return
\* the parsed cached value and issue no read, no write and no cache write, even
\* if the backend has changed since the value was cached
C9_CacheHitTouchesNothing ==
  /\ ((CallDone("ensureDataPools") \/ CallDone("getDataPools"))
        /\ obs.stale # NoValue /\ last.status = "ok")
       => /\ obs.hit
          /\ last.result = JSONParse(obs.stale)
          /\ NoBackendCall(obs)
          /\ obs.csets = 0 /\ obs.cdels = 0 /\ obs.wsets = 0
          /\ obs.cgets = 1
          /\ obs.started = <<>>
          /\ ~expired => cache = obs.stale
  /\ (stack # <<>> /\ stack[1].fn \in {"ensureDataPools", "getDataPools"}
        /\ obs.stale # NoValue)
       => (Len(stack) = 1 /\ NoBackendCall(obs) /\ cache = obs.stale)

\* getDataPools answered from the cache although the backend holds a customer
\* that the cached aggregate does not
C9_Witness ==
  /\ CallDone("getDataPools")
  /\ obs.hit
  /\ drifts > 0
  /\ backend["Customers"][1] \notin Range(last.result["Customers"])
  /\ Len(last.result["Customers"]) = minPoolSize

(***************************************************************************)
(* Properties of the generation loop (SpecPool)                            *)
(***************************************************************************)
\* the generation loop of a bulk ensure call is between two cycles
InLoop == Running("ensure", "loop") /\ Top.ent \in BulkEntities

\* C11: a cycle counts as a successful creation exactly when its write answered
\* with EC = 0 and truthy data; a write that throws or answers with another code
\* or without data is one failed attempt, adds nothing and leaves the loop running
C11_SuccessIffAccepted ==
  /\ InLoop => /\ Top.succ = obs.accepted
               /\ Len(Top.newItems) = obs.accepted
               /\ Top.att = obs.gens
  /\ PoolDone => last.status = "ok"

(***************************************************************************)
(* Properties of the wallet step (SpecLoops)                               *)
(***************************************************************************)
\* the entity of the call under way or just completed
CallEnt == IF stack # <<>> THEN stack[1].ent ELSE last.ent

\* the orders paid by FWallet that the backend accepted during the call
FWalletCreated ==
  IF CallEnt # "Orders" THEN 0
  ELSE Cardinality({i \in DOMAIN CreatedDuring("Orders") :
                      CreatedDuring("Orders")[i].payment_method = "FWallet"})

\* the three wallet reads of a wallet step all answered with EC = 0
ReadsReportSuccess(wl) == wl.kind \in {"ok", "wallet_nodata", "wallet_set_throw"}

\* the wallet reads a wallet step issues: all three, or those up to the one that throws
ReadsIssued(wl) == IF wl.kind = "wallet_get_throw" THEN wl.at ELSE 3

RECURSIVE SumReads(_)
SumReads(ws) == IF ws = <<>> THEN 0 ELSE ReadsIssued(Head(ws)) + SumReads(Tail(ws))

\* upper bound of the wallet cache writes of the wallet steps ws
RECURSIVE MaxSets(_)
MaxSets(ws) ==
  IF ws = <<>> THEN 0
  ELSE (IF ReadsReportSuccess(Head(ws)) THEN 3 ELSE 0) + MaxSets(Tail(ws))

\* wallet cache writes of wallet steps in which no cache write throws
RECURSIVE MinSets(_)
MinSets(ws) ==
  IF ws = <<>> THEN 0
  ELSE (IF Head(ws).kind \in {"ok", "wallet_nodata"} THEN 3 ELSE 0) + MinSets(Tail(ws))

\* C12 as stated: every accepted FWallet order is followed by exactly 3 wallet
\* reads, wallet cache entries are written only after 3 successful wallet reads,
\* and nothing else causes a wallet read or a wallet cache write
C12_ExactlyThreeReads ==
  /\ Len(obs.wallets) = FWalletCreated
  /\ obs.wreads = 3 * Len(obs.wallets)
  /\ obs.wsets <= MaxSets(obs.wallets)
  /\ obs.wttl \subseteq {2 * 60 * 60 * 1000}

\* C12 amended: every accepted FWallet order is followed by the 3 wallet reads,
\* issued one after another, exactly 3 unless one of them throws and the later
\* ones are not issued; wallet cache entries (3, with a time to live of two hours,
\* unless a cache write throws) are written only after 3 successful wallet reads;
\* nothing else causes a wallet read or a wallet cache write
C12_WalletStep ==
  /\ Len(obs.wallets) = FWalletCreated
  /\ obs.wreads = SumReads(obs.wallets)
  /\ obs.wreads <= 3 * Len(obs.wallets)
  /\ (\A i \in DOMAIN obs.wallets : obs.wallets[i].kind # "wallet_get_throw")
       => obs.wreads = 3 * Len(obs.wallets)
  /\ obs.wsets <= MaxSets(obs.wallets)
  /\ obs.wsets >= MinSets(obs.wallets)
  /\ obs.wttl \subseteq {2 * 60 * 60 * 1000}
  /\ obs.wsets > 0 => obs.wttl # {}

\* an accepted FWallet order was followed by two wallet reads, the second of
\* which threw, and by no wallet cache write
C12_Witness ==
  /\ CallEnt = "Orders"
  /\ Len(obs.wallets) = 1
  /\ obs.wallets[1] = [kind |-> "wallet_get_throw", at |-> 2]
  /\ obs.wreads = 2
  /\ obs.wsets = 0
  /\ obs.accepted = 1

\* an accepted FWallet order was followed by 3 wallet reads and 3 cache writes
C12_FullWitness ==
  /\ CallEnt = "Orders"
  /\ Len(obs.wallets) = 1
  /\ obs.wallets[1].kind = "ok"
  /\ obs.wreads = 3
  /\ obs.wsets = 3
  /\ obs.accepted > 1

(***************************************************************************)
(* Properties of the calls one invocation issues                           *)
(***************************************************************************)
\* C13: an invocation of ensureEntityPool issues exactly one read to its read
\* endpoint, and the read is answered before the first write attempt; on an
\* empty address book pool: 1 read, then at most 20 writes and at most 10 records
C13_OneReadThenWrites ==
  CallEnt \in BulkEntities
    => /\ Running("ensure", "read") => (NoReads(obs) /\ NoWrites(obs) /\ obs.gens = 0)
       /\ (InLoop \/ PoolDone)
            => /\ obs.reads[CallEnt] = 1
               /\ \A u \in Entities \ {CallEnt} : obs.reads[u] = 0
               /\ obs.read.outcome # "none"
       /\ (obs.gens > 0 \/ ~NoWrites(obs)) => obs.reads[CallEnt] = 1
       /\ \A u \in Entities \ {CallEnt} : obs.writes[u] = 0
       /\ (PoolDone /\ ReadSucceeded /\ obs.read.items = <<>>)
            => /\ obs.writes[CallEnt] <= 2 * minPoolSize
               /\ Len(last.result) <= minPoolSize
               /\ Len(last.result) <= obs.writes[CallEnt]

\* ensureAddressBooks on an empty backend read once, then wrote 20 times in vain
C13_Witness ==
  /\ PoolDone
  /\ last.ent = "AddressBooks"
  /\ ReadSucceeded
  /\ obs.read.items = <<>>
  /\ obs.reads["AddressBooks"] = 1
  /\ obs.writes["AddressBooks"] = 2 * minPoolSize
  /\ last.result = <<>>

(***************************************************************************)
(* Properties of generateAdditionalEntity (SpecAdd)                        *)
(***************************************************************************)
\* a call of generateAdditionalEntity alone on the stack has returned
AddDone == stack = <<>> /\ last.fn = "generateAdditionalEntity"

\* no call of the behaviour has failed so far
NothingFailed == fault.kind = "chaos" /\ fault.left = MaxFailures

\* what holds of generateAdditionalEntity(count) with the creations counted as
\* its code counts them: no read, at most count * 2 writes, at most count records
\* returned, all created by the call, and the loop over at the count-th of them
AdditionalAccounting ==
  /\ Running("generateAdditionalEntity", "loop")
       => /\ NoReads(obs)
          /\ Top.succ <= Top.needed
          /\ Top.att <= 2 * Top.needed
          /\ Top.att = obs.gens
          /\ obs.writes[Top.ent] <= Top.att
  /\ AddDone
       => /\ last.status = "ok"
          /\ NoReads(obs)
          /\ obs.writes[last.ent] <= 2 * obs.arg
          /\ obs.gens <= 2 * obs.arg
          /\ Len(last.result) <= obs.arg
          /\ IsOrderedPick(last.result, CreatedDuring(last.ent))
          /\ (Len(last.result) < obs.arg) => obs.gens = 2 * obs.arg
          /\ (Len(last.result) = obs.arg /\ obs.arg > 0)
               => last.result[obs.arg] = backend[last.ent][Len(backend[last.ent])]
          /\ NothingFailed
               => (Len(last.result) = obs.arg /\ obs.writes[last.ent] = obs.arg)

\* a call with count = 2 on a pool beyond the minimum created and returned 2 records
AdditionalOnFullPool ==
  /\ AddDone
  /\ obs.read.held = minPoolSize + Surplus
  /\ obs.arg = 2
  /\ Len(last.result) = 2
  /\ obs.writes[last.ent] = 3
  /\ Len(backend[last.ent]) = minPoolSize + Surplus + 2

\* C14: generateAdditionalEntity(count) makes no minimum check on its entity: it
\* runs the generation loop whatever the pool holds, issues at most count * 2
\* writes, stops as soon as count creations succeeded (writes answered with
\* EC = 0 and data) and returns only the records it created, at most count
C14_StopsAtCount ==
  /\ AdditionalAccounting
  /\ Running("generateAdditionalEntity", "loop")
       => /\ obs.accepted <= Top.needed
          /\ obs.accepted >= Top.needed => ~AdditionalGoesOn(Top)
  /\ AddDone => obs.accepted <= obs.arg

(***************************************************************************)
(* ensureSpecialStatusOrders (claims C15, C16)                             *)
(***************************************************************************)
\* ensureSpecialStatusOrders has just returned: called alone, or to ensureOrders,
\* which has not yet read the orders for its own pool
SpecialDone ==
  \/ stack = <<>> /\ last.fn = "ensureSpecialStatusOrders"
  \/ /\ Len(stack) = 1
     /\ Running("ensure", "read")
     /\ Top.ent = "Orders"
     /\ obs.special.read # "none"

SpecialStatuses == {"DELIVERED", "CANCELLED"}

\* the read answered well and every write the call issued was accepted
SpecialAllSucceeded ==
  /\ obs.special.read = "ok"
  /\ \A st \in SpecialStatuses : obs.special.ok[st] = obs.special.posts[st]

\* C15: when ensureSpecialStatusOrders has returned with its read and all its
\* writes succeeding, the backend holds at least 5 DELIVERED and at least 2
\* CANCELLED orders; the call issued exactly max(0, 5 - delivered) writes of
\* DELIVERED orders and max(0, 2 - cancelled) writes of CANCELLED orders, each
\* stored with the status asked for, and no write at all when both thresholds
\* were already met
C15_SpecialThresholds ==
  (SpecialDone /\ SpecialAllSucceeded)
    => /\ CountStatus(backend["Orders"], "DELIVERED") >= 5
       /\ CountStatus(backend["Orders"], "CANCELLED") >= 2
       /\ obs.special.posts["DELIVERED"] = Max(0, 5 - obs.special.delivered)
       /\ obs.special.posts["CANCELLED"] = Max(0, 2 - obs.special.cancelled)
       /\ \A st \in SpecialStatuses :
            CountStatus(backend["Orders"], st)
              = (IF st = "DELIVERED" THEN obs.special.delivered
                 ELSE obs.special.cancelled) + obs.special.posts[st]
       /\ obs.writes["Orders"]
            = obs.special.posts["DELIVERED"] + obs.special.posts["CANCELLED"]
       /\ (obs.special.delivered >= 5 /\ obs.special.cancelled >= 2)
            => obs.writes["Orders"] = 0

\* a call that found 3 DELIVERED and 1 CANCELLED orders created 2 and 1
C15_Witness ==
  /\ SpecialDone
  /\ SpecialAllSucceeded
  /\ obs.special.delivered = 3
  /\ obs.special.cancelled = 1
  /\ obs.special.ok["DELIVERED"] = 2
  /\ obs.special.ok["CANCELLED"] = 1
  /\ CountStatus(backend["Orders"], "DELIVERED") = 5
  /\ CountStatus(backend["Orders"], "CANCELLED") = 2

\* a call that found both thresholds met wrote nothing
C15_NoneNeeded ==
  /\ SpecialDone
  /\ obs.special.read = "ok"
  /\ obs.special.delivered = 6
  /\ obs.special.cancelled = 2
  /\ obs.writes["Orders"] = 0

\* ensureOrders is the call in progress
OrdersCall == stack # <<>> /\ stack[1].fn = "ensure" /\ stack[1].ent = "Orders"

SpecialFns == {"ensureSpecialStatusOrders", "createSpecialStatusOrders"}

\* the orders the special step found and those it had accepted, by status
SpecialHeld(st) ==
  (IF st = "DELIVERED" THEN obs.special.delivered ELSE obs.special.cancelled)
    + obs.special.ok[st]

\* C16: in ensureOrders, ensureSpecialStatusOrders has completed before the read
\* of the generic order pool is issued: while the special step runs the pool has
\* not been read, the pool is read only after the special step, and the
\* currentData of the pool holds the special-status orders created in this call
C16_SpecialBeforePool ==
  OrdersCall
    => /\ stack[1].pc = "ups" => obs.reads["Orders"] = 0
       /\ (\E i \in 2 .. Len(stack) : stack[i].fn \in SpecialFns)
            => (stack[1].pc = "special" /\ obs.reads["Orders"] <= 1)
       /\ stack[1].pc = "read"
            => (Len(stack) = 1 /\ obs.special.read # "none" /\ obs.reads["Orders"] = 1)
       /\ stack[1].pc = "loop"
            => (Len(stack) = 1 /\ obs.special.read # "none" /\ obs.reads["Orders"] = 2)
       /\ (stack[1].pc = "loop" /\ obs.read.outcome = "ok")
            => /\ \A st \in SpecialStatuses :
                    CountStatus(stack[1].cur, st) = SpecialHeld(st)
               /\ Len(stack[1].cur) = obs.read.held
               /\ stack[1].needed = Max(0, minPoolSize - Len(stack[1].cur))

\* ensureOrders on an empty order list: the 7 special orders are in currentData
\* and the pool generates the 3 that are missing
C16_Witness ==
  /\ OrdersCall
  /\ stack[1].pc = "loop"
  /\ obs.read.outcome = "ok"
  /\ obs.special.ok["DELIVERED"] = 5
  /\ obs.special.ok["CANCELLED"] = 2
  /\ Len(stack[1].cur) = 7
  /\ stack[1].needed = 3

(***************************************************************************)
(* The growth loop (claims C17, C18)                                       *)
(***************************************************************************)
\* the timer has been started or a tick callback has begun
LoopStarted == ag.timer # "none" \/ ag.intervalId \/ ag.ticks # <<>>

\* C17: the timer of the growth loop is not started and no tick callback runs
\* before the initial ensureDataPools awaited in onModuleInit has completed, and
\* if that call throws the loop is never started
C17_LoopAfterInit ==
  /\ ag.ensured = "none" => ~LoopStarted
  /\ ag.ensured = "threw" => (~LoopStarted /\ ~ag.isInitialized)
  /\ LoopStarted => (ag.ensured = "ok" /\ ag.init = "done")
  /\ (stack # <<>> /\ stack[1].fn = "ensureDataPools") => ~LoopStarted

\* the initial ensureDataPools threw on the cache client, the module was later
\* shut down, and no timer was ever started
C17_Witness ==
  /\ ag.ensured = "threw"
  /\ last.fn = "ensureDataPools"
  /\ last.status = "threw"
  /\ ag.destroyed
  /\ ~LoopStarted

\* the initial ensureDataPools returned and a tick callback has begun
C17_Started ==
  /\ ag.ensured = "ok"
  /\ ag.timer = "armed"
  /\ Len(ag.ticks) = 1

\* C18: onModuleDestroy cancels the timer of the growth loop: after it has
\* returned the timer is not armed and no tick callback begins
C18_DestroyCancelsTimer ==
  ag.destroyed => (ag.timer # "armed" /\ Len(ag.ticks) = ag.begunAtDestroy)

\* the module was shut down with the timer running and before a tick had begun:
\* the timer is cleared and no tick has begun since
C18_Witness ==
  /\ ag.destroyed
  /\ ag.timer = "cleared"
  /\ ag.begunAtDestroy < MaxTicks
  /\ Len(ag.ticks) = ag.begunAtDestroy

(***************************************************************************)
(* Exceptions of ensureDataPools and the HTTP handlers (claim C19)         *)
(***************************************************************************)
\* a request to one of the three routes has been answered
RouteDone == stack = <<>> /\ last.fn \in Routes

\* the fault of the behaviour is a failure of the cache client
CacheFault == fault.target = "cache"

\* the request found a text that is no JSON under the cache key and parsed it
ParsedGarbage == ~Parsable(obs.stale) /\ last.fn # "refreshDataPools"

\* C19: a service call behind a route throws only for a failing cache call or a
\* cached value that cannot be parsed, never for a failure of a backend read or
\* write; the handler of the route never throws: it answers {status: 'error',
\* data: null, message} exactly when the service call threw and {status:
\* 'success', data: pools, message} otherwise
C19_HandlersAbsorb ==
  RouteDone
    => /\ last.status \in {"ok", "threw"}
       /\ last.status = "threw" => (CacheFault \/ ParsedGarbage)
       /\ (ParsedGarbage /\ ~CacheFault) => last.status = "threw"
       /\ (~CacheFault /\ ~ParsedGarbage) => last.status = "ok"
       /\ last.response.status \in {"success", "error"}
       /\ last.response.status = "error" <=> last.status = "threw"
       /\ last.response.status = "error"
            => (last.response.data = Null
                /\ last.response.message = FailureMessage(last.fn))
       /\ last.response.status = "success"
            => (last.response.data = last.result
                /\ last.response.message = SuccessMessage(last.fn))

\* an ensure request on an empty backend whose order writes all throw is
\* answered with success and the pools
C19_Witness ==
  /\ RouteDone
  /\ last.fn = "ensureDataPools"
  /\ fault = Persistent("Orders", "write_throw")
  /\ obs.writes["Orders"] >= 2 * minPoolSize
  /\ last.status = "ok"
  /\ last.response.status = "success"
  /\ last.response.data = last.result
  /\ Len(last.result["Orders"]) = 0

\* a request that found an unparsable cached value is answered with the error
\* envelope
C19_ErrorWitness ==
  /\ RouteDone
  /\ ParsedGarbage
  /\ ~CacheFault
  /\ last.response.status = "error"

(***************************************************************************)
(* Singleton admin pools (claim C20)                                       *)
(***************************************************************************)
\* the role-filtered read was answered and its data holds at least one element
ReportsRecord == obs.read.outcome # "read_throw" /\ Len(obs.read.items) >= 1

\* one read of the role and no call for another entity
OneRoleRead ==
  /\ obs.reads[last.ent] = 1
  /\ \A e \in Entities \ {last.ent} : obs.reads[e] = 0 /\ obs.writes[e] = 0
  /\ obs.wreads = 0

C20_ReadThrew ==
  /\ AdminDone
  /\ obs.read.outcome = "read_throw"
  /\ obs.writes[last.ent] = 0

(***************************************************************************)
(* Foreign keys of generated payloads (claim C21)                          *)
(***************************************************************************)
\* the functions whose loop calls a generator closure
GeneratorFns == {"ensure", "generateAdditionalEntity", "createSpecialStatusOrders"}

\* the entity whose payload the loop of frame f generates
PayloadEntity(f) == IF f.fn = "createSpecialStatusOrders" THEN "Orders" ELSE f.ent

\* the frame on top is in a loop that calls its generator closure
AtGenerator ==
  stack # <<>> /\ Top.fn \in GeneratorFns /\ Top.pc \in {"loop", "post"}

Ids(list) == {list[i].id : i \in DOMAIN list}

\* the payload the generator closure of the frame on top returns when called now
NextPayload == GenerateData(PayloadEntity(Top), Top.ups, rng)

\* the pool the i-th foreign key of that payload is drawn from
PayloadPool(i) == FkSpec(PayloadEntity(Top), rng)[i][2]

\* C21: every foreign key of a generated payload is the id of a record of the
\* upstream pool list resolved before the generator ran (a record the backend
\* holds), or null; it is null whenever that list is empty
C21_ForeignKeysResolved ==
  AtGenerator
    => \A i \in DOMAIN NextPayload.fk :
         LET v == NextPayload.fk[i][2]
             pool == PayloadPool(i)
         IN
         /\ pool \in Top.got
         /\ v = Null \/ v \in Ids(Top.ups[pool])
         /\ Top.ups[pool] = <<>> => v = Null
         /\ v # Null => v \in Ids(backend[pool])

\* the address books could not be read: the restaurants were created without an
\* address, and a menu item now refers to one of these restaurants
C21_Witness ==
  /\ Running("ensure", "loop")
  /\ Top.ent = "MenuItems"
  /\ Top.ups["Restaurants"] # <<>>
  /\ NextPayload.fk[1][2] \in Ids(Top.ups["Restaurants"]) \ {Null}
  /\ backend["AddressBooks"] = <<>>
  /\ \A i \in DOMAIN backend["Restaurants"] :
       backend["Restaurants"][i].fk = <<<<"address_id", Null>>>>

(***************************************************************************)
(* Two orchestration runs at once (claim C22, SpecRace)                    *)
(***************************************************************************)
\* both calls have returned
RaceDone == stack = <<>> /\ parked.stack = <<>>

\* the counters of the two calls
BothRuns == {obs, parked.obs}

\* C22: nothing excludes a second orchestration run while one is in progress: the
\* suspended run can be resumed at every await of the other.  Each run creates
\* the records its own read found missing, whatever the other run creates, so the
\* backend holds the records it had plus the creations of both runs, more than
\* minPoolSize once both runs have created and returned; and every run that found
\* the cache key empty writes that key
C22_RunsNotExcluded ==
  /\ parked.stack # <<>> => ENABLED Switch
  /\ Len(backend[RaceEntity])
       = minPoolSize - RaceShortage
         + obs.writes[RaceEntity] + parked.obs.writes[RaceEntity]
  /\ \A o \in BothRuns : o.writes[RaceEntity] <= RaceShortage
  /\ RaceDone
       => /\ (\A o \in BothRuns : o.writes[RaceEntity] > 0)
               => Len(backend[RaceEntity]) > minPoolSize
          /\ \A o \in BothRuns : o.csets = (IF o.hit THEN 0 ELSE 1)
          /\ cache # NoValue
          /\ Len(JSONParse(cache)[RaceEntity]) = minPoolSize

\* both runs read the short count before either had written: each created the
\* missing records, the backend holds more than minPoolSize of them, and both
\* runs wrote the cache key
C22_Witness ==
  /\ RaceDone
  /\ \A o \in BothRuns : o.writes[RaceEntity] = RaceShortage /\ o.csets = 1
  /\ Len(backend[RaceEntity]) = minPoolSize + RaceShortage

(***************************************************************************)
(* A pool that is already large enough (claim C23, SpecPool)               *)
(***************************************************************************)
\* the read of a bulk ensure call succeeded and reported at least minPoolSize
\* records
AlreadyEnough ==
  PoolDone /\ ReadSucceeded /\ Len(obs.read.items) >= minPoolSize

\* C23 as stated: with at least minPoolSize records in the backend the call
\* returns the existing data unmodified, more than minPoolSize records if the
\* backend holds more
C23_ReturnsUnmodified == AlreadyEnough => last.result = obs.read.items

\* C23: with at least minPoolSize records in the backend the call leaves the
\* backend as it is and returns the first minPoolSize records of the existing
\* data, never more, also when earlier growth pushed the backend count higher
C23_ReturnsFirstMinimum ==
  AlreadyEnough
    => /\ Len(last.result) = minPoolSize
       /\ IsPrefix(last.result, obs.read.items)
       /\ backend[last.ent] = obs.read.items
       /\ obs.accepted = 0

\* the backend held more than minPoolSize records and the call returned fewer
\* records than it read
C23_Witness ==
  /\ AlreadyEnough
  /\ Len(backend[last.ent]) = minPoolSize + Surplus
  /\ Len(last.result) < Len(obs.read.items)
  /\ last.result # obs.read.items

(***************************************************************************)
(* Ensure methods invoked again within one pass (claim C24, SpecHandlers)  *)
(***************************************************************************)
\* an orchestration pass is in progress
InPass == \E n \in DOMAIN stack : stack[n].fn = "ensureDataPools"

\* the frame of ensureDataPools: its locals hold what the first invocation of
\* every ensure method returned
ThePass == stack[CHOOSE n \in DOMAIN stack : stack[n].fn = "ensureDataPools"]

\* the reads of entity e reflect the writes made before them
ReadsReflect(e) == ~(fault.target = e /\ fault.kind \in ReadKinds)

\* the ensure method of e has returned minPoolSize records to ensureDataPools
BroughtToMinimum(e) == e \in ThePass.got /\ Len(ThePass.ups[e]) = minPoolSize

\* the frame on top is about to POST a record of entity e
AboutToWrite(e) ==
  \/ /\ Running("ensure", "loop")
     /\ Top.ent = e
     /\ Top.succ < Top.needed
     /\ Top.att < MaxAttempts(Top.needed)
  \/ /\ e = "Orders"
     /\ Running("createSpecialStatusOrders", "loop")
     /\ Top.att < Top.needed

\* C24: within one pass, once the ensure method of a bulk entity has returned
\* minPoolSize records, every later invocation of that method (by a downstream
\* ensure method) issues no write and returns the same records
C24_IdempotentInPass ==
  InPass
    => \A e \in BulkEntities :
         (ReadsReflect(e) /\ BroughtToMinimum(e))
           => /\ ~AboutToWrite(e)
              /\ \A n \in DOMAIN stack :
                   (stack[n].fn # "ensureDataPools" /\ e \in stack[n].got)
                     => Range(stack[n].ups[e]) = Range(ThePass.ups[e])

(***************************************************************************)
(* The calls of one tick (claim C25, SpecTick)                             *)
(***************************************************************************)
\* the positions of a tick between its selection and its last call
GeneratingPcs == {"wait", "generate_call", "generate_await"}

\* the kinds of the calls a tick has begun, in order
CalledKinds(t) == [j \in DOMAIN t.called |-> t.called[j][1]]

\* C25: a tick that decides to generate selects 1 to 3 pairwise distinct kinds of
\* the candidate list; for each selected kind, in turn, it awaits one delay and
\* then makes one generateAdditional call with a count of 1 to 3; it goes on to
\* the next selected kind whatever the call did, and ends with no selected kind
\* left without its call
C25_OneCallPerSelectedKind ==
  \A i \in DOMAIN ag.ticks :
    LET t == ag.ticks[i] IN
    /\ t.pc \in GeneratingPcs
         => /\ Len(t.chosen) \in 1 .. 3
            /\ Range(t.chosen) \subseteq Range(GrowthEntities)
            /\ \A j, k \in DOMAIN t.chosen : j # k => t.chosen[j] # t.chosen[k]
            /\ t.count \in 1 .. 3
            /\ \A j \in DOMAIN t.called : t.called[j][2] \in 1 .. 3
            /\ t.waited = Len(t.called) + (IF t.pc = "generate_call" THEN 1 ELSE 0)
            /\ t.chosen = CalledKinds(t)
                            \o (IF t.pc = "generate_await" THEN Tail(t.sel) ELSE t.sel)
    /\ t.pc = "generate_await"
         => /\ t.called[Len(t.called)] = <<t.sel[1], t.count>>
            /\ (ag.caller = i /\ stack # <<>>)
                 => /\ stack[1].fn = "generateAdditionalEntity"
                    /\ stack[1].ent = t.sel[1]
                    /\ stack[1].needed = t.count
            /\ Returned(i)
                 => (last.fn = "generateAdditionalEntity" /\ last.ent = t.sel[1]
                     /\ last.obs.arg = t.count)
    /\ t.pc = "done" => t.sel = <<>>

\* a tick selected three kinds; the call for the first created nothing, every
\* POST of that kind throwing; the calls for the other two followed and the last
\* has returned with new records
C25_Witness ==
  \E i \in DOMAIN ag.ticks :
    LET t == ag.ticks[i] IN
    /\ t.pc = "generate_await"
    /\ Returned(i)
    /\ Len(t.chosen) = 3
    /\ Len(t.called) = 3
    /\ t.waited = 3
    /\ fault = Persistent(t.chosen[1], "write_throw")
    /\ Len(backend[t.chosen[1]]) = minPoolSize + Surplus
    /\ Len(last.result) >= 1

(***************************************************************************)
(* The bounds of the generation loop (claim C26, SpecPool)                 *)
(***************************************************************************)
\* needed, as the completed call computed it from its read
NeededAtRead ==
  minPoolSize - (IF ReadSucceeded THEN Len(obs.read.items) ELSE 0)

\* the completed bulk call went through its generation loop
Looped == PoolDone /\ obs.read.outcome # "read_throw" /\ NeededAtRead > 0

\* C26: the generation loop of ensureEntityPool keeps successfulCreations <=
\* attempts <= needed * 2 at every step and exits exactly when
\* successfulCreations = needed or attempts = needed * 2; it issues exactly
\* needed writes when every write succeeds and exactly needed * 2 writes when
\* every write fails
C26_LoopBounds ==
  /\ InLoop
       => /\ Top.succ <= Top.att
          /\ Top.att <= Top.needed * 2
          /\ Top.att = obs.gens
          /\ ENABLED PoolReturn
               <=> (Top.succ = Top.needed \/ Top.att = Top.needed * 2)
          /\ ENABLED PoolCycle <=> ~ENABLED PoolReturn
  /\ (Looped /\ obs.accepted = obs.writes[last.ent])
       => obs.writes[last.ent] = NeededAtRead
  /\ (Looped /\ obs.accepted = 0 /\ obs.writes[last.ent] = obs.gens)
       => obs.writes[last.ent] = NeededAtRead * 2

(***************************************************************************)
(* The two generation loops side by side (claim C27, SpecLoops)            *)
(***************************************************************************)
\* one of the two loops is between two cycles
AtLoop ==
  /\ stack # <<>>
  /\ Top.pc = "loop"
  /\ Top.fn \in {"ensure", "generateAdditionalEntity"}
  /\ Top.ent \in BulkEntities

\* the answers a write can get and the ways the wallet step after it can go
WriteAnswers == {"ok", "gen_throw"} \cup WriteKinds

WalletAnswers == {OkWallet} \cup WalletFailures

\* C27: generateAdditionalEntity(name, writePath, gen, count) does what the
\* generation phase of ensureEntityPool does with needed = count and no existing
\* record: from the same counters, for the same payload and the same answers to
\* the write and to the wallet calls, both loops go on or stop alike, issue the
\* same write, wallet reads and wallet cache writes, count the cycle alike and
\* return the same list of new records
C27_SameLoop ==
  AtLoop
    => LET item == GenerateData(Top.ent, Top.ups, rng) IN
       /\ AdditionalGoesOn(Top)
            <=> (Top.succ < Top.needed /\ Top.att < MaxAttempts(Top.needed))
       /\ \A w \in WriteAnswers, wl \in WalletAnswers :
            Cycle(Top.ent, item, w, wl) = AdditionalCycleOf(Top.ent, item, w, wl)
       /\ FinalData(<<>>, Top.newItems) = Top.newItems

(***************************************************************************)
(* The earlier pool service, data-pool.service.ts (claim C28, SpecPool)    *)
(***************************************************************************)
\* private readonly minPoolSize = 10 of the earlier service
OldMinPoolSize == 10

\* the order in which the earlier ensureDataPools awaits its ensure methods
OldPoolOrder ==
  <<"AddressBooks", "FoodCategories", "SuperAdmins", "FinanceAdmins",
    "CompanionAdmins", "FinanceRules", "Restaurants", "MenuItems",
    "MenuItemVariants", "Promotions", "Drivers", "Customers", "CustomerCares",
    "Orders">>

\* the earlier ensureOrders goes from its upstream pools to its own pool
OldAfterUpstream(e) == "read"

\* currentData of the earlier service after its two checks
OldCurrentData(resp) ==
  IF resp.EC = 0 /\ resp.kind = "array" THEN resp.items ELSE <<>>

\* currentData.slice(0, this.minPoolSize) of the earlier service
OldEnoughData(cur) == Slice(cur, OldMinPoolSize)

\* what the earlier service does with the answer a to its GET: return at once
\* or enter the generation loop
OldAfterRead(a) ==
  LET cur == OldCurrentData(a) IN
  IF a.outcome = "read_throw"
  THEN [pc |-> "return", val |-> <<>>, status |-> "ok", cur |-> <<>>, needed |-> 0]
  ELSE IF Len(cur) >= OldMinPoolSize
  THEN [pc |-> "return", val |-> OldEnoughData(cur), status |-> "ok",
        cur |-> cur, needed |-> 0]
  ELSE [pc |-> "loop", val |-> <<>>, status |-> "none", cur |-> cur,
        needed |-> OldMinPoolSize - Len(cur)]

\* while (successfulCreations < needed && attempts < maxAttempts), with
\* maxAttempts = needed * 2, in the earlier service
OldGoesOn(succ, att, needed) == succ < needed /\ att < needed * 2

\* an earlier wallet step after every accepted order
OldWalletAppliesAnyPayment(e, item, w) == w = "ok" /\ e = "Orders"

\* whether the wallet step of the earlier service follows an accepted write
OldWalletApplies(e, item, w) ==
  w = "ok" /\ e = "Orders" /\ item.payment_method = "FWallet"

\* one pass of the body of the earlier generation loop
OldCycle(e, item, w, wl) ==
  [posts |-> IF w = "gen_throw" THEN 0 ELSE 1,
   accepted |-> w = "ok",
   pushed |-> w = "ok"
              /\ (OldWalletApplies(e, item, w) => wl.kind \in {"ok", "wallet_ec"}),
   wreads |-> IF ~OldWalletApplies(e, item, w) THEN 0
              ELSE IF wl.kind = "wallet_get_throw" THEN wl.at ELSE 3,
   wsets |-> IF ~OldWalletApplies(e, item, w) THEN 0
             ELSE CASE wl.kind \in {"ok", "wallet_nodata"} -> 3
                    [] wl.kind = "wallet_set_throw" -> wl.at - 1
                    [] OTHER -> 0,
   wallet |-> IF OldWalletApplies(e, item, w) THEN <<wl>> ELSE <<>>]

\* const finalData = [...currentData, ...newItems] of the earlier service
OldFinalData(cur, newItems) == cur \o newItems

\* the running call is in ensureEntityPool
InEnsureEntityPool ==
  stack # <<>> /\ Top.fn = "ensure" /\ Top.ent \in BulkEntities

\* the step taken from the GET is the one the earlier service takes on the
\* same answer
OldReadStep ==
  LET d == OldAfterRead(obs'.read) IN
  /\ backend' = backend
  /\ cache' = cache
  /\ obs'.reads = Bump(obs.reads, Top.ent)
  /\ obs'.writes = obs.writes
  /\ IF d.pc = "return"
     THEN stack' = <<>> /\ last'.result = d.val /\ last'.status = d.status
     ELSE /\ stack' # <<>>
          /\ Top'.pc = "loop"
          /\ Top'.cur = d.cur
          /\ Top'.needed = d.needed
          /\ Top'.succ = 0 /\ Top'.att = 0 /\ Top'.newItems = <<>>

\* the step taken from the loop is the one the earlier service takes from the
\* same counters on the same payload and answers
OldLoopStep ==
  LET e == Top.ent
      item == GenerateData(e, Top.ups, rng)
      rec == Created(item, Len(backend[e]) + 1)
  IN
  /\ \A w \in WriteAnswers, wl \in WalletAnswers :
       OldCycle(e, item, w, wl) = Cycle(e, item, w, wl)
  /\ cache' = cache
  /\ IF OldGoesOn(Top.succ, Top.att, Top.needed)
     THEN /\ stack' # <<>>
          /\ \E w \in WriteAnswers, wl \in WalletAnswers \cup WalletOutcomes :
               LET c == OldCycle(e, item, w, wl) IN
               /\ obs' = ObsCycle(obs, e, c)
               /\ backend' = IF c.accepted THEN [backend EXCEPT ![e] = Append(@, rec)]
                             ELSE backend
               /\ Top'.att = Top.att + 1
               /\ Top'.succ = Top.succ + (IF c.pushed THEN 1 ELSE 0)
               /\ Top'.newItems = IF c.pushed THEN Append(Top.newItems, rec)
                                  ELSE Top.newItems
               /\ Top'.cur = Top.cur /\ Top'.needed = Top.needed
     ELSE /\ stack' = <<>>
          /\ backend' = backend
          /\ obs' = obs
          /\ last'.result = OldFinalData(Top.cur, Top.newItems)
          /\ last'.status = "ok"

\* C28: the earlier pool service (data-pool.service.ts) and the current one
\* implement the same ensureEntityPool: every step the current one takes, from
\* its GET or from its generation loop, is the step the earlier one takes for
\* the same entity, answers and payload, with the same backend and cache calls
\* and the same returned list; outside it the current service only adds steps:
\* two more pools after the earlier fourteen and the special-status step of
\* ensureOrders
C28_SameEnsureEntityPool ==
  [][ /\ InEnsureEntityPool /\ Top.pc = "read" => OldReadStep
      /\ InEnsureEntityPool /\ Top.pc = "loop" => OldLoopStep
      /\ SubSeq(PoolOrder, 1, Len(OldPoolOrder)) = OldPoolOrder
      /\ \A e \in BulkEntities :
           AfterUpstream(e) # OldAfterUpstream(e) <=> e = "Orders" ]_vars

\* a call that read a short Orders pool, created records, ran the wallet step
\* and returned the minimum
C28_Witness ==
  /\ stack = <<>>
  /\ last.fn = "ensure"
  /\ last.ent = "Orders"
  /\ last.status = "ok"
  /\ Len(last.result) = minPoolSize
  /\ obs.accepted > 0
  /\ obs.wsets > 0
  /\ obs.read.outcome = "ok"

(***************************************************************************)
(* One pass over an empty backend (claim C29, Spec)                        *)
(***************************************************************************)
\* the latest call ran the ensure methods (no cache hit), nothing failed, and
\* every record the backend holds was written by it: the backend was empty when
\* it began
PassFromEmpty ==
  /\ stack = <<>>
  /\ last.fn = "ensureDataPools"
  /\ fault = NoFault
  /\ ~last.obs.hit
  /\ ~expired
  /\ \A e \in Entities : Len(backend[e]) = last.obs.writes[e]

\* the aggregate p has the sixteen pools, ten records in each bulk pool and one
\* in each admin pool
FullAggregate(p) ==
  /\ DOMAIN p = Entities
  /\ Cardinality(BulkEntities) = 13
  /\ Cardinality(AdminRoles) = 3
  /\ \A e \in BulkEntities : Len(p[e]) = 10
  /\ \A e \in AdminRoles : Len(p[e]) = 1

AskedFor ==
  IF last.fn = "generateAdditionalEntity" THEN obs.arg
  ELSE IF obs.read.outcome = "read_throw" THEN 0
  ELSE IF Len(CurrentData(obs.read)) >= minPoolSize THEN 0
  ELSE minPoolSize - Len(CurrentData(obs.read))

\* the new records in the list the completed call returned
NewInResult ==
  IF last.fn = "generateAdditionalEntity" THEN Len(last.result)
  ELSE IF AskedFor = 0 THEN 0
  ELSE Len(last.result) - Len(CurrentData(obs.read))

\* C30: in a single ensureEntityPool or generateAdditionalEntity run, for every
\* entity including Orders, the number of records the backend accepted (writes
\* answered with EC = 0 and data) equals the number of new records in the
\* returned list and therefore never exceeds needed (respectively count), also
\* when a wallet read or wallet cache write fails after an order was accepted
C30_AcceptedAreReturned ==
  PoolDone \/ AddDone
    => /\ obs.accepted = NewInResult
       /\ obs.accepted <= AskedFor

(***************************************************************************)
(* Write attempts of one orchestration pass (claim C31, Spec)              *)
(***************************************************************************)
\* as stated, C31: within one ensureDataPools pass the write attempts sent to
\* the write endpoint of any one bulk entity total at most 2 * minPoolSize
C31_WritesPerPass ==
  InPass => \A e \in BulkEntities : obs.writes[e] <= 2 * minPoolSize

\* the step sends a write to the endpoint of e
WritesTo(e) == obs'.writes[e] # obs.writes[e] /\ stack # <<>> /\ stack' # <<>>

\* C31, amended: within one ensureDataPools pass on a cache miss each invocation
\* of ensureEntityPool sends at most 2 * minPoolSize write attempts to the write
\* endpoint of its entity, whatever the pattern of write failures: it begins
\* with no attempt, every write it sends is one counted attempt and its
\* attempts never exceed twice the records it needs, at most minPoolSize; the
\* only other writes are the POSTs of createSpecialStatusOrders, at most
\* SpecialDelivered + SpecialCancelled per invocation of ensureOrders.  The
\* upstream ensure methods are re-invoked by every downstream entity, so over
\* the pass the total can exceed 2 * minPoolSize
C31_WritesPerInvocation ==
  [][ InPass =>
        /\ Running("ensure", "read") /\ Top.ent \in BulkEntities => Top.att = 0
        /\ Running("ensure", "loop")
             => /\ Top.needed <= minPoolSize
                /\ Top.att <= 2 * Top.needed
        /\ Running("createSpecialStatusOrders", "loop")
             => Top.att <= Top.needed /\ Top.needed <= Max(SpecialDelivered, SpecialCancelled)
        /\ \A e \in BulkEntities :
             WritesTo(e)
               => /\ obs'.writes[e] = obs.writes[e] + 1
                  /\ Top'.att = Top.att + 1
                  /\ \/ Running("ensure", "loop") /\ Top.ent = e
                     \/ Running("createSpecialStatusOrders", "loop") /\ e = "Orders" ]_vars

\* a pass in which every write of an entity fails: a later invocation of its
\* ensure method has used up its attempts, after an earlier one did the same
C31_Witness ==
  /\ InPass
  /\ Running("ensure", "loop")
  /\ Top.ent \in BulkEntities
  /\ Top.att = 2 * minPoolSize
  /\ obs.writes[Top.ent] > 2 * minPoolSize

(***************************************************************************)
(* Foreign keys inside the cached aggregate (claim C32, SpecHandlers)      *)
(***************************************************************************)
\* a pass has just written its aggregate to the cache and returned it
PassCached ==
  /\ stack = <<>>
  /\ last.fn \in Routes
  /\ last.status = "ok"
  /\ ~last.obs.hit
  /\ last.obs.csets = 1

\* the pool a foreign-key field refers to
FkPool(name) ==
  CASE name = "created_by_id" -> "SuperAdmins"
    [] name \in {"address_id", "customer_location", "restaurant_location"} -> "AddressBooks"
    [] name \in {"category", "food_category_ids"} -> "FoodCategories"
    [] name = "restaurant_id" -> "Restaurants"
    [] name \in {"menu_id", "item_id"} -> "MenuItems"
    [] name = "variant_id" -> "MenuItemVariants"
    [] name = "customer_id" -> "Customers"
    [] name = "order_id" -> "Orders"
    [] OTHER -> "none"

\* every non-null foreign key of the records of pool e in the aggregate p is the
\* id of a record of the pool of p it refers to
ClosedPool(p, e) ==
  \A i \in DOMAIN p[e] :
    \A j \in DOMAIN p[e][i].fk :
      LET name == p[e][i].fk[j][1]
          v == p[e][i].fk[j][2]
      IN FkPool(name) # "none" /\ v # Null => v \in Ids(p[FkPool(name)])

\* C32: in the aggregate that one ensureDataPools pass writes to the cache,
\* every non-null foreign key of a record created during that pass is the id of
\* a record contained in the corresponding pool of the same aggregate
C32_AggregateClosed ==
  PassCached
    => /\ cache = JSONStringify(last.result)
       /\ \A e \in BulkEntities : ClosedPool(last.result, e)

(***************************************************************************)
(* generateAdditional<Entity>(count) with the pools it resolves first      *)
(* (claim C33, SpecGrow)                                                   *)
(***************************************************************************)
\* the methods called: generateAdditionalDrivers, generateAdditionalMenuItems,
\* generateAdditionalRatingReviews
GrowEntities == {"Drivers", "MenuItems", "RatingReviews"}

\* the upstream pool the backend is short of, if any
GrowShort == {"none", "AddressBooks", "Restaurants", "Orders"}

\* the backend at the call: every pool beyond the minimum and the orders with
\* their special statuses, except that the pool u is short of the minimum and,
\* unless complete, one DELIVERED and one CANCELLED order are missing
GrowBackend(u, complete) ==
  [e \in Entities |->
     IF e = "Orders"
     THEN OrdersWith(IF complete THEN SpecialDelivered ELSE SpecialDelivered - 1,
                     IF complete THEN SpecialCancelled ELSE SpecialCancelled - 1,
                     IF u = "Orders" THEN 2 ELSE minPoolSize)
     ELSE IF e = u THEN Populated(e, minPoolSize - 1)
     ELSE FullBackend[e]]

\* one call generateAdditional<Entity>(count): the backend answers every call,
\* or refuses every write of the entity itself
InitGrow ==
  /\ \E e \in GrowEntities, u \in GrowShort, complete \in BOOLEAN,
        count \in 1 .. MaxCount :
       /\ backend = GrowBackend(u, complete)
       /\ stack = <<Frame("generateAdditionalEntity", e, count)>>
       /\ obs = [Obs0 EXCEPT !.arg = count]
       /\ fault \in {NoFault, Persistent(e, "write_ec")}
  /\ cache = NoValue
  /\ rng \in 0 .. MaxSeed
  /\ last = NoCall
  /\ prev = NoCall
  /\ expired = FALSE
  /\ calls = 1
  /\ drifts = 0
  /\ ag = NoLoop
  /\ parked = NoRun

NextGrow ==
  \/ AdditionalUpstreamCall
  \/ AdditionalCycle
  \/ AdditionalReturn
  \/ EnsureUpstream
  \/ EnsureOrdersSpecial
  \/ PoolRead
  \/ PoolCycle
  \/ PoolReturn
  \/ SpecialRead
  \/ SpecialCreateDelivered
  \/ SpecialCreateCancelled
  \/ SpecialReturn
  \/ CreateSpecialUpstream
  \/ CreateSpecialCycle
  \/ CreateSpecialReturn

SpecGrow == InitGrow /\ [][NextGrow]_vars

\* a generateAdditional call is under way
GrowCall == stack # <<>> /\ stack[1].fn = "generateAdditionalEntity"

UpstreamFilled ==
  AddDone
    => \A u \in GeneratorReads(last.ent) : Len(backend[u]) >= minPoolSize

ServeKinds == {"Customers"}

\* the requests served while the tick runs
ServeRequests == 2

\* the module is initialised and a tick callback is at its decision; the
\* backend lacks one customer and nothing is cached yet
InitServe ==
  /\ backend =
       [FullBackend EXCEPT
          !["Orders"] = OrdersWith(SpecialDelivered, SpecialCancelled, minPoolSize),
          !["Customers"] = Populated("Customers", minPoolSize - 1)]
  /\ cache = NoValue
  /\ stack = <<>>
  /\ rng = 0
  /\ fault = NoFault
  /\ obs = Obs0
  /\ last = NoCall
  /\ prev = NoCall
  /\ expired = FALSE
  /\ calls = MaxCalls - ServeRequests
  /\ drifts = 0
  /\ ag = [NoLoop EXCEPT !.init = "done", !.ensured = "ok", !.isInitialized = TRUE,
                         !.intervalId = TRUE, !.timer = "armed",
                         !.kinds = ServeKinds, !.ticks = <<NewTick("decide")>>]
  /\ parked = NoRun

NextServe ==
  \/ \E i \in DOMAIN ag.ticks :
       \/ TickDecide(i)
       \/ TickWait(i)
       \/ TickGenerateCall(i)
       \/ TickGenerateResumes(i)
  \/ AdditionalCycle
  \/ AdditionalReturn
  \/ CallEnsureDataPools
  \/ CallGetDataPools
  \/ CallRefreshDataPools
  \/ DataPoolsGet
  \/ DataPoolsNext
  \/ DataPoolsSet
  \/ GetDataPoolsGet
  \/ RefreshDel
  \/ EnsureUpstream
  \/ EnsureOrdersSpecial
  \/ PoolRead
  \/ PoolCycle
  \/ PoolReturn
  \/ AdminRead
  \/ SpecialRead
  \/ CacheExpire

SpecServe == InitServe /\ [][NextServe]_vars

\* C34: the value under the aggregate cache key is changed only by the set at
\* the end of a cache-miss ensureDataPools pass and by the delete in
\* refreshDataPools (and by its expiry): the ensure methods, the generateAdditional
\* methods and the ticks of the growth loop leave it unchanged, so a request
\* served from the cache gets the aggregate as it was set, without the records
\* created since
C34_CacheSetAndDeleteOnly ==
  [][ /\ cache' # cache
        => \/ /\ Running("ensureDataPools", "set")
              /\ ~obs.hit
              /\ cache' = JSONStringify(Top.ups)
           \/ /\ Running("refreshDataPools", "del")
              /\ cache' = NoValue
           \/ /\ stack = <<>> /\ stack' = <<>>
              /\ cache' = NoValue
              /\ expired'
              /\ backend' = backend
      /\ stack # <<>> /\ stack' = <<>> /\ last'.obs.hit
        => /\ DOMAIN last'.result = {cache[i][1] : i \in DOMAIN cache}
           /\ \A i \in DOMAIN cache : last'.result[cache[i][1]] = cache[i][2]
           /\ cache' = cache
           /\ backend' = backend ]_vars

\* a request was served from the cache after the growth loop created a
\* customer: the served aggregate lacks the record the backend holds
C34_Witness ==
  /\ stack = <<>>
  /\ last.fn = "getDataPools"
  /\ last.obs.hit
  /\ cache # NoValue
  /\ Len(backend["Customers"]) > Len(last.result["Customers"])
  /\ backend["Customers"][Len(backend["Customers"])] \notin Range(last.result["Customers"])

(***************************************************************************)
(* Two tick callbacks of the growth loop (claim C35, SpecOverlap).  The    *)
(* timer of setInterval fires every 5000 ms whatever the callbacks begun   *)
(* earlier are doing, and the delay a tick awaits before each of its calls *)
(* lasts 5000 to 15000 ms.                                                 *)
(***************************************************************************)
\* the first tick callback decided to generate and awaits the delay before its
\* first call; the timer has fired again and a second callback has just begun
InitOverlap ==
  /\ backend =
       [FullBackend EXCEPT
          !["Orders"] = OrdersWith(SpecialDelivered, SpecialCancelled, minPoolSize)]
  /\ cache = WarmCache(backend)
  /\ stack = <<>>
  /\ rng \in 0 .. MaxSeed
  /\ fault = NoFault
  /\ obs = Obs0
  /\ last = NoCall
  /\ prev = NoCall
  /\ expired = FALSE
  /\ calls = 0
  /\ drifts = 0
  /\ \E sel \in {<<"Customers">>, <<"Drivers", "Customers">>},
        count \in 1 .. MaxCount, pc \in {"special_read", "decide"} :
       ag = [NoLoop EXCEPT !.init = "done", !.ensured = "ok", !.isInitialized = TRUE,
                           !.intervalId = TRUE, !.timer = "armed",
                           !.kinds = TickKinds,
                           !.ticks = <<[NewTick("wait") EXCEPT !.sel = sel,
                                                                !.chosen = sel,
                                                                !.count = count],
                                       NewTick(pc)>>]
  /\ parked = NoRun

NextOverlap ==
  \/ \E i \in DOMAIN ag.ticks :
       \/ TickSpecialRead(i)
       \/ TickDecide(i)
       \/ TickWait(i)
       \/ TickGenerateCall(i)
       \/ TickGenerateResumes(i)
  \/ AdditionalUpstreamCall
  \/ AdditionalCycle
  \/ AdditionalReturn
  \/ PoolRead

SpecOverlap == InitOverlap /\ [][NextOverlap]_vars

\* the tick callbacks inside their generation phase: waiting before a call, about
\* to call, or awaiting the call
TicksGenerating == {i \in DOMAIN ag.ticks : ag.ticks[i].pc \in GeneratingPcs}

\* C35: growth-loop ticks do not overlap: at any time at most one tick callback
\* is inside its generation phase, and no tick begins issuing backend calls while
\* an earlier one is still waiting between entities or generating
C35_TicksDoNotOverlap ==
  /\ Cardinality(TicksGenerating) <= 1
  /\ \A i \in DOMAIN ag.ticks :
       ag.caller = i /\ stack # <<>> => TicksGenerating \subseteq {i}

\* the tick callback i starts, in this step, a generateAdditional call or the PUT
\* of a status update; the GET of a special-status order check is issued in the
\* turn of the timer that begins the callback, at the position "special_read"
TickStarts(i) ==
  LET before == ag.ticks[i].pc
      after == ag'.ticks[i].pc
  IN
  /\ after # before
  /\ after \in {"generate_await", "special_await", "special_put", "special_read"}

\* C36: after onModuleDestroy has returned the growth loop starts no further
\* generateAdditional call, special-status order check or backend write, also
\* not from a tick callback that was running when the module was destroyed
C36_NothingStartsAfterDestroy ==
  [][ag.destroyed => \A i \in DOMAIN ag.ticks : ~TickStarts(i)]_vars

(***************************************************************************)
(* The special-status order check of one tick callback studied alone       *)
(* (SpecCheck): the backend is short of DELIVERED and CANCELLED orders, no *)
(* call fails or some calls fail                                           *)
(***************************************************************************)
\* the DELIVERED and CANCELLED orders missing when the check begins
CheckShortages == {<<2, 1>>, <<0, 2>>}

CheckFaults ==
  {NoFault, Persistent("Orders", "write_throw"),
   [target |-> "any", kind |-> "chaos", left |-> MaxFailures]}

\* the module is initialised, the timer has fired and the tick callback awaits
\* the GET of its ensureSpecialStatusOrders
InitCheck ==
  /\ \E s \in CheckShortages :
       backend =
         [FullBackend EXCEPT
            !["Orders"] = OrdersWith(SpecialDelivered - s[1], SpecialCancelled - s[2],
                                     minPoolSize)]
  /\ cache = WarmCache(backend)
  /\ stack = <<>>
  /\ rng = 0
  /\ fault \in CheckFaults
  /\ obs = Obs0
  /\ last = NoCall
  /\ prev = NoCall
  /\ expired = FALSE
  /\ calls = 0
  /\ drifts = 0
  /\ ag = [NoLoop EXCEPT !.init = "done", !.ensured = "ok", !.isInitialized = TRUE,
                         !.intervalId = TRUE, !.timer = "armed",
                         !.kinds = TickKinds, !.ticks = <<NewTick("special_read")>>]
  /\ parked = NoRun

NextCheck ==
  \/ \E i \in DOMAIN ag.ticks :
       \/ TickSpecialRead(i)
       \/ TickSpecialCall(i)
       \/ TickSpecialResumes(i)
       \/ TickSpecialPut(i)
  \/ AdditionalUpstreamCall
  \/ AdditionalCycle
  \/ AdditionalReturn
  \/ EnsureUpstream
  \/ PoolRead
  \/ PoolCycle
  \/ PoolReturn

SpecCheck == InitCheck /\ [][NextCheck]_vars

(***************************************************************************)
(* The special-status order check of the growth loop (claim C38)           *)
(***************************************************************************)
SpecialPcs == {"special_call", "special_await", "special_put"}

\* the check of tick i is in an iteration of one of its two loops: the status is
\* that of the loop, and the iterations left, this one included, and those of
\* the loop for CANCELLED still to come are within the two needed counts
SpecialInBounds(t) ==
  t.pc \in SpecialPcs
    => \/ t.status = "DELIVERED" /\ t.left \in 1 .. SpecialDelivered
          /\ t.nCan \in 0 .. SpecialCancelled
       \/ t.status = "CANCELLED" /\ t.left \in 1 .. SpecialCancelled /\ t.nCan = 0

\* the iteration of t is over and u is what follows: the next iteration of the
\* same loop, the first of the loop for CANCELLED, or the end of the check
IterationOver(t, u) ==
  IF t.left > 1
  THEN u.pc = "special_call" /\ u.status = t.status /\ u.left = t.left - 1
       /\ u.nCan = t.nCan
  ELSE IF t.status = "DELIVERED" /\ t.nCan > 0
  THEN u.pc = "special_call" /\ u.status = "CANCELLED" /\ u.left = t.nCan
       /\ u.nCan = 0
  ELSE u.pc = "decide"

\* C38: in the growth loop's own ensureSpecialStatusOrders a PUT /orders/{id} is
\* issued only for an order that generateAdditionalOrders(1) has just created
\* and that carries an id; the loop for DELIVERED has max(0, 5 - delivered)
\* iterations and the loop for CANCELLED max(0, 2 - cancelled), each issuing at
\* most one PUT; and a creation or an update that fails is followed by the
\* remaining iterations
C38_SpecialUpdates ==
  [][\A i \in DOMAIN ag.ticks :
       LET t == ag.ticks[i]
           u == ag'.ticks[i]
       IN
       /\ SpecialInBounds(u)
       \* the two loops are entered with the counts needed by the list read
       /\ t.pc = "special_read" /\ u.pc # "special_read"
            => \E o \in ReadOutcomes("Orders") :
                 LET resp == ReadResponse("Orders", o)
                     nd == Max(0, SpecialDelivered - CountStatus(resp.items, "DELIVERED"))
                     nc == Max(0, SpecialCancelled - CountStatus(resp.items, "CANCELLED"))
                 IN
                 IF o = "read_throw" \/ resp.kind \in {"object", "string"}
                    \/ nd + nc = 0
                 THEN u.pc = "decide"
                 ELSE /\ u.pc = "special_call"
                      /\ u.left + u.nCan = nd + nc
                      /\ u.status = (IF nd > 0 THEN "DELIVERED" ELSE "CANCELLED")
                      /\ u.left = (IF nd > 0 THEN nd ELSE nc)
       \* an iteration is one call of generateAdditionalOrders(1)
       /\ t.pc = "special_call" /\ u.pc # "special_call"
            => /\ u.pc = "special_await"
               /\ stack' = <<Frame("generateAdditionalEntity", "Orders", 1)>>
               /\ u.left = t.left /\ u.nCan = t.nCan /\ u.status = t.status
       \* the PUT is issued for the order the call has just created, and only then
       /\ u.pc = "special_put" /\ t.pc # "special_put"
            => /\ t.pc = "special_await"
               /\ last.fn = "generateAdditionalEntity" /\ last.ent = "Orders"
               /\ last.status = "ok" /\ Len(last.result) = 1
               /\ last.obs.accepted >= 1
               /\ u.order = last.result[1].id /\ u.order # Null
               /\ \E j \in DOMAIN backend["Orders"] :
                    /\ backend["Orders"][j] = last.result[1]
                    /\ j > Len(backend["Orders"]) - last.obs.accepted
               /\ u.left = t.left /\ u.nCan = t.nCan /\ u.status = t.status
       \* without such an order the iteration is over with no PUT
       /\ t.pc = "special_await" /\ u.pc \notin {"special_await", "special_put"}
            => /\ last.status # "ok" \/ last.result = <<>> \/ last.result[1].id = Null
               /\ IterationOver(t, u)
               /\ backend' = backend
       \* the PUT changes the status of that order alone, or fails and changes
       \* nothing, and the iteration is over either way
       /\ t.pc = "special_put" /\ u.pc # "special_put"
            => /\ IterationOver(t, u)
               /\ \/ backend' = backend
                  \/ backend' = [backend EXCEPT !["Orders"] =
                                   [j \in DOMAIN @ |->
                                      IF @[j].id = t.order
                                      THEN [@[j] EXCEPT !.status = t.status]
                                      ELSE @[j]]]
  ]_vars

\* the check found two DELIVERED orders missing; the first iteration created an
\* order whose PUT failed, the second created an order and set its status, and
\* the check is in the loop for CANCELLED
C38_Witness ==
  \E i \in DOMAIN ag.ticks :
    /\ ag.ticks[i].pc = "special_call"
    /\ ag.ticks[i].status = "CANCELLED"
    /\ LET held == (SpecialDelivered - 2) + (SpecialCancelled - 1) + minPoolSize IN
       /\ Len(backend["Orders"]) = held + 2
       /\ backend["Orders"][held + 1].status # "DELIVERED"
       /\ backend["Orders"][held + 2].status = "DELIVERED"
    /\ CountStatus(backend["Orders"], "DELIVERED") = SpecialDelivered - 1
    /\ last.fn = "generateAdditionalEntity"
    /\ last.status = "ok"
    /\ Len(last.result) = 1

(***************************************************************************)
(* Termination (claim C37, SpecLive): one call of the service, begun on an *)
(* empty or a populated backend, with every call answered: correctly, or   *)
(* every POST refused, or every POST throwing                              *)
(***************************************************************************)
LiveFaults ==
  {NoFault, Persistent("writes", "write_ec"), Persistent("writes", "write_throw")}

\* the calls begun: ensureDataPools, refreshDataPools, each ensure method and
\* each generateAdditional method
LiveCalls ==
  {Frame("ensureDataPools", "none", 0), Frame("refreshDataPools", "none", 0)}
  \cup {Frame("ensure", e, 0) : e \in Entities}
  \cup {Frame("generateAdditionalEntity", e, MaxCount) : e \in Range(GrowthEntities)}

InitLive ==
  /\ backend \in {EmptyBackend, FullBackend}
  /\ cache = NoValue
  /\ \E f \in LiveCalls :
       /\ stack = <<f>>
       /\ obs = [Obs0 EXCEPT !.arg = f.needed]
  /\ rng = 0
  /\ fault \in LiveFaults
  /\ last = NoCall
  /\ prev = NoCall
  /\ expired = FALSE
  /\ calls = 1
  /\ drifts = 0
  /\ ag = NoLoop
  /\ parked = NoRun

\* the steps of the call: each is the answer to the call it awaits
NextLive ==
  \/ DataPoolsGet
  \/ DataPoolsNext
  \/ DataPoolsSet
  \/ RefreshDel
  \/ EnsureUpstream
  \/ EnsureOrdersSpecial
  \/ PoolRead
  \/ PoolCycle
  \/ PoolReturn
  \/ AdminRead
  \/ AdminPost
  \/ SpecialRead
  \/ SpecialCreateDelivered
  \/ SpecialCreateCancelled
  \/ SpecialReturn
  \/ CreateSpecialUpstream
  \/ CreateSpecialCycle
  \/ CreateSpecialReturn
  \/ AdditionalUpstreamCall
  \/ AdditionalCycle
  \/ AdditionalReturn

\* every backend and cache call eventually returns or throws
SpecLive == InitLive /\ [][NextLive]_vars /\ WF_vars(NextLive)

\* no method awaits, directly or through others, another activation of itself
NoRecursion ==
  \A i, j \in DOMAIN stack :
    i # j => <<stack[i].fn, stack[i].ent>> # <<stack[j].fn, stack[j].ent>>

\* C37: provided every backend and cache call eventually returns or throws,
\* every call of ensureDataPools, refreshDataPools, each ensure method and each
\* generateAdditional method terminates, also when every write fails: no method
\* is awaited while an activation of it is in progress, and the call returns
C37_Terminates == []NoRecursion /\ <>(stack = <<>>)

\* ensureDataPools has returned on a backend that was empty and refused every
\* POST: every loop ran to its attempt cap and no record was accepted
C37_Witness ==
  /\ stack = <<>>
  /\ last.fn = "ensureDataPools"
  /\ fault = Persistent("writes", "write_ec")
  /\ backend = EmptyBackend
  /\ last.obs.accepted = 0
  /\ last.obs.writes["AddressBooks"] >= MaxAttempts(minPoolSize)

====
